---- MODULE Spec2Model ----
(***************************************************************************)
(* Gomoku: the AI move engine (ai.js: candidate generation, quick move     *)
(* scoring, evaluation, win detection, alpha-beta search with a time       *)
(* budget, iterative deepening, opening book, four difficulty policies)    *)
(* and the refereeing GameEngine (js/game.js).                              *)
(*                                                                         *)
(* A board is a function [0..BOARD_SIZE-1 -> [0..BOARD_SIZE-1 -> cell]],   *)
(* read as board[x][y] by the AI (x = row) and as board[y][x] by the       *)
(* GameEngine, exactly as in the source.                                   *)
(*                                                                         *)
(* Numbers.  The source multiplies scores by 1.1, 0.9 and 0.5.  The model  *)
(* keeps every score an integer by carrying search values multiplied by    *)
(* 20 and quick move scores multiplied by 10; comparisons are those of     *)
(* the exact real values.                                                  *)
(***************************************************************************)
EXTENDS Integers, Sequences, FiniteSets, TLC

\* ---------------------------------------------------------------- constants

EMPTY == 0
BLACK == 1
WHITE == 2
\* What reading a cell of a row that is not an array gives in JavaScript
\* (undefined): a value different from EMPTY, BLACK and WHITE.
UNDEF == 3
BOARD_SIZE == 15
\* Math.floor(BOARD_SIZE / 2)
CENTER == BOARD_SIZE \div 2

\* Values of the search are carried multiplied by ValueScale.
ValueScale == 20
WIN_SCORE == 100000000
\* INF = 1e9 only bounds the search values (at most WIN_SCORE + 6 in size)
\* from above and below.  At the scale of the search values it is carried
\* as the largest 32-bit integer, which exceeds ValueScale * (WIN_SCORE + 6).
INF == 2147483647

SCORES_FIVE == 10000000
SCORES_OPEN_FOUR == 1000000
SCORES_HALF_OPEN_FOUR == 100000
SCORES_OPEN_THREE == 10000
SCORES_HALF_OPEN_THREE == 1000
SCORES_OPEN_TWO == 100
SCORES_HALF_OPEN_TWO == 10
SCORES_OPEN_ONE == 1

\* [dx, dy] as in ai.js: horizontal, vertical, diagonal, anti-diagonal.
DIRECTIONS == << <<0, 1>>, <<1, 0>>, <<1, 1>>, <<1, -1>> >>

Idx == 0 .. (BOARD_SIZE - 1)
Players == {BLACK, WHITE}

Max(a, b) == IF a >= b THEN a ELSE b
Min(a, b) == IF a <= b THEN a ELSE b
Abs(a) == IF a >= 0 THEN a ELSE -a

Move(x, y) == [x |-> x, y |-> y]
CenterMove == Move(CENTER, CENTER)

\* ---------------------------------------------------------------- utilities

inBounds(x, y) == x >= 0 /\ x < BOARD_SIZE /\ y >= 0 /\ y < BOARD_SIZE

\* opponent with the first branch taken for every player.
opponentAlwaysWhite(player) == WHITE

opponent(player) == IF player = BLACK THEN WHITE ELSE BLACK

countStones(board) ==
  Cardinality({c \in Idx \X Idx : board[c[1]][c[2]] # EMPTY})

isBoardFull(board) == \A i \in Idx, j \in Idx : board[i][j] # EMPTY

Place(board, x, y, v) == [board EXCEPT ![x][y] = v]

\* ------------------------------------------------------ candidate generation

\* The (di, dj) pairs of the two nested loops, in loop order.
Offsets(radius) ==
  LET w == 2 * radius + 1
  IN  [n \in 1 .. (w * w) |->
         << ((n - 1) \div w) - radius, ((n - 1) % w) - radius >>]

\* NewAround without the test that the cell is empty.
NewAroundAnyCell(board, i, j, radius, visited) ==
  LET offs == Offsets(radius)
      keyAt(n) == (i + offs[n][1]) * BOARD_SIZE + (j + offs[n][2])
      ok(n) == /\ inBounds(i + offs[n][1], j + offs[n][2])
               /\ keyAt(n) \notin visited
      pick == SelectSeq([n \in 1 .. Len(offs) |-> n], ok)
  IN  [m \in 1 .. Len(pick) |-> keyAt(pick[m])]

\* The cells around stone (i, j) that are pushed: in bounds, empty, not
\* yet visited.  Keys are ni * BOARD_SIZE + nj as in the source.
NewAround(board, i, j, radius, visited) ==
  LET offs == Offsets(radius)
      keyAt(n) == (i + offs[n][1]) * BOARD_SIZE + (j + offs[n][2])
      ok(n) == /\ inBounds(i + offs[n][1], j + offs[n][2])
               /\ board[i + offs[n][1]][j + offs[n][2]] = EMPTY
               /\ keyAt(n) \notin visited
      pick == SelectSeq([n \in 1 .. Len(offs) |-> n], ok)
  IN  [m \in 1 .. Len(pick) |-> keyAt(pick[m])]

RECURSIVE GenScan(_, _, _, _, _)
\* The double loop over the cells lo..hi (numbered i * BOARD_SIZE + j), run
\* from the state st = [acc, visited]: the candidates pushed so far, in
\* order, and the keys seen.  The range is split in halves, first half
\* first, so the cells are still visited in loop order.
GenScan(board, radius, lo, hi, st) ==
  IF lo = hi
  THEN LET i == lo \div BOARD_SIZE
           j == lo % BOARD_SIZE
       IN  IF board[i][j] = EMPTY THEN st
           ELSE LET new == NewAround(board, i, j, radius, st.visited)
                IN  [acc |-> st.acc \o new,
                     visited |-> st.visited \cup {new[m] : m \in 1 .. Len(new)}]
  ELSE LET mid == (lo + hi) \div 2
           left == GenScan(board, radius, lo, mid, st)
       IN  IF Len(left.acc) >= 0
           THEN GenScan(board, radius, mid + 1, hi, left)
           ELSE left

KeyMove(key) == Move(key \div BOARD_SIZE, key % BOARD_SIZE)

generateCandidates(board, radius) ==
  IF \A i \in Idx, j \in Idx : board[i][j] = EMPTY
  THEN << CenterMove >>
  ELSE LET keys == GenScan(board, radius, 0, BOARD_SIZE * BOARD_SIZE - 1,
                            [acc |-> << >>, visited |-> {}]).acc
       IN  [m \in 1 .. Len(keys) |-> KeyMove(keys[m])]

\* ------------------------------------------------------------------ summing

RECURSIVE SumUpTo(_, _)
\* f[0] + ... + f[n]
SumUpTo(f, n) == IF n < 0 THEN 0 ELSE f[n] + SumUpTo(f, n - 1)

\* The sum of g[i][j] over the board.
SumBoard(g) ==
  SumUpTo([i \in Idx |-> SumUpTo(g[i], BOARD_SIZE - 1)], BOARD_SIZE - 1)

\* -------------------------------------------------------- pattern evaluation

\* The (length, open ends) table of evaluateBoard for a run shorter than 5.
PatternScore(count, openEnds) ==
  IF openEnds = 0 THEN 0
  ELSE IF count = 4
       THEN (IF openEnds = 2 THEN SCORES_OPEN_FOUR ELSE SCORES_HALF_OPEN_FOUR)
  ELSE IF count = 3
       THEN (IF openEnds = 2 THEN SCORES_OPEN_THREE ELSE SCORES_HALF_OPEN_THREE)
  ELSE IF count = 2
       THEN (IF openEnds = 2 THEN SCORES_OPEN_TWO ELSE SCORES_HALF_OPEN_TWO)
  ELSE IF count = 1
       THEN (IF openEnds = 2 THEN SCORES_OPEN_ONE ELSE 0)
  ELSE 0

RECURSIVE RunFrom(_, _, _, _, _, _)
\* The number of cells equal to `stone` from (i, j) on, stepping (dx, dy).
RunFrom(board, i, j, dx, dy, stone) ==
  IF inBounds(i, j) /\ board[i][j] = stone
  THEN 1 + RunFrom(board, i + dx, j + dy, dx, dy, stone)
  ELSE 0

\* What the run starting at (i, j) along (dx, dy) adds to its owner's score
\* (0 when (i, j) is empty or continues a run).
RunScore(board, i, j, dx, dy) ==
  LET stone == board[i][j]
      pi == i - dx
      pj == j - dy
  IN  IF stone = EMPTY THEN 0
      ELSE IF inBounds(pi, pj) /\ board[pi][pj] = stone THEN 0
      ELSE LET count == RunFrom(board, i, j, dx, dy, stone)
               ai == i + dx * count
               aj == j + dy * count
               openBefore == inBounds(pi, pj) /\ board[pi][pj] = EMPTY
               openAfter == inBounds(ai, aj) /\ board[ai][aj] = EMPTY
               openEnds == (IF openBefore THEN 1 ELSE 0)
                           + (IF openAfter THEN 1 ELSE 0)
           IN  IF count >= 5 THEN SCORES_FIVE
               ELSE PatternScore(count, openEnds)

\* What the loop over the directions of evaluateBoard adds to the score of
\* the owner `who`: the sum of the table's weights of the runs of `who`.
PatternTotal(board, who) ==
  SumUpTo([d \in 0 .. 3 |->
    SumBoard([i \in Idx |-> [j \in Idx |->
      IF board[i][j] = who
      THEN RunScore(board, i, j, DIRECTIONS[d + 1][1], DIRECTIONS[d + 1][2])
      ELSE 0]])], 3)

\* What the loop "center preference bonus" of evaluateBoard adds for the
\* stones of `who`.
CenterBonus(board, who) ==
  SumBoard([i \in Idx |-> [j \in Idx |->
    IF board[i][j] = who
    THEN Max(0, 7 - (Abs(i - CENTER) + Abs(j - CENTER)))
    ELSE 0]])

\* evaluateBoard with the opponent's patterns added instead of subtracted.
evaluateBoardAdding(board, player) ==
  10 * (PatternTotal(board, player) + CenterBonus(board, player))
    + 11 * PatternTotal(board, opponent(player))

\* 10 * (myScore - oppScore * 1.1) of evaluateBoard.
evaluateBoard(board, player) ==
  LET line(d) ==
        SumBoard([i \in Idx |-> [j \in Idx |->
          LET s == RunScore(board, i, j, DIRECTIONS[d][1], DIRECTIONS[d][2])
          IN  IF s = 0 THEN 0
              ELSE IF board[i][j] = player THEN 10 * s ELSE -11 * s]])
      bonus ==
        SumBoard([i \in Idx |-> [j \in Idx |->
          IF board[i][j] = player
          THEN 10 * Max(0, 7 - (Abs(i - CENTER) + Abs(j - CENTER)))
          ELSE 0]])
  IN  line(1) + line(2) + line(3) + line(4) + bonus

\* The secondary table of evaluateBoardAdvanced for a window with `n`
\* stones of one player and none of the other.
WindowScore(n) ==
  IF n = 5 THEN SCORES_FIVE
  ELSE IF n = 4 THEN SCORES_HALF_OPEN_FOUR
  ELSE IF n = 3 THEN SCORES_HALF_OPEN_THREE * 2
  ELSE IF n = 2 THEN SCORES_HALF_OPEN_TWO
  ELSE 0

\* 10 * (what the window starting at (i, j) adds to myScore - oppScore * 1.1).
WindowTerm(board, player, i, j, dx, dy) ==
  IF ~inBounds(i + dx * 4, j + dy * 4) THEN 0
  ELSE LET opp == opponent(player)
           myCount ==
             Cardinality({k \in 0 .. 4 : board[i + dx * k][j + dy * k] = player})
           oppCount ==
             Cardinality({k \in 0 .. 4 : board[i + dx * k][j + dy * k] = opp})
       IN  (IF myCount > 0 /\ oppCount = 0 THEN 10 * WindowScore(myCount) ELSE 0)
           - (IF oppCount > 0 /\ myCount = 0 THEN 11 * WindowScore(oppCount) ELSE 0)

\* 20 * (basicScore + (myScore - oppScore * 1.1) * 0.5).
evaluateBoardAdvanced(board, player) ==
  LET win(d) ==
        SumBoard([i \in Idx |-> [j \in Idx |->
          WindowTerm(board, player, i, j, DIRECTIONS[d][1], DIRECTIONS[d][2])]])
  IN  2 * evaluateBoard(board, player) + win(1) + win(2) + win(3) + win(4)

\* ---------------------------------------------------- quick threat detection

\* The first k in 1..4 at which the walk from (x, y) along (dx, dy) leaves
\* the run of `who` (5 when all four cells belong to `who`).
WalkStop(board, x, y, dx, dy, who) ==
  LET off(k) == ~(inBounds(x + dx * k, y + dy * k)
                  /\ board[x + dx * k][y + dy * k] = who)
  IN  IF off(1) THEN 1 ELSE IF off(2) THEN 2 ELSE IF off(3) THEN 3
      ELSE IF off(4) THEN 4 ELSE 5

\* Whether the walk stopped at an in-bounds empty cell.
WalkOpen(board, x, y, dx, dy, stop) ==
  /\ stop <= 4
  /\ inBounds(x + dx * stop, y + dy * stop)
  /\ board[x + dx * stop][y + dy * stop] = EMPTY

isWinningMove(board, x, y, player) ==
  \E d \in 1 .. 4 :
    LET dx == DIRECTIONS[d][1]
        dy == DIRECTIONS[d][2]
    IN  1 + (WalkStop(board, x, y, dx, dy, player) - 1)
          + (WalkStop(board, x, y, -dx, -dy, player) - 1) >= 5

\* The mover's own term of scoreMoveQuick for one axis.
OwnTerm(total, open) ==
  IF total >= 5 THEN SCORES_FIVE
  ELSE IF total = 4
       THEN (IF open = 2 THEN SCORES_OPEN_FOUR
             ELSE IF open = 1 THEN SCORES_HALF_OPEN_FOUR ELSE 0)
  ELSE IF total = 3
       THEN (IF open = 2 THEN SCORES_OPEN_THREE
             ELSE IF open = 1 THEN SCORES_HALF_OPEN_THREE ELSE 0)
  ELSE IF total = 2
       THEN (IF open = 2 THEN SCORES_OPEN_TWO
             ELSE IF open = 1 THEN SCORES_HALF_OPEN_TWO ELSE 0)
  ELSE 0

\* The blocking term of scoreMoveQuick for one axis, before the 0.9.
BlockTerm(total, open) ==
  IF total >= 5 THEN SCORES_FIVE
  ELSE IF total = 4 THEN (IF open >= 1 THEN SCORES_HALF_OPEN_FOUR ELSE 0)
  ELSE IF total = 3
       THEN (IF open = 2 THEN SCORES_OPEN_THREE
             ELSE IF open = 1 THEN SCORES_HALF_OPEN_THREE ELSE 0)
  ELSE 0

\* 10 * (what one axis adds to the score of scoreMoveQuick).
AxisScore(board, x, y, dx, dy, player) ==
  LET opp == opponent(player)
      mf == WalkStop(board, x, y, dx, dy, player)
      mb == WalkStop(board, x, y, -dx, -dy, player)
      myOpen == (IF WalkOpen(board, x, y, dx, dy, mf) THEN 1 ELSE 0)
                + (IF WalkOpen(board, x, y, -dx, -dy, mb) THEN 1 ELSE 0)
      of == WalkStop(board, x, y, dx, dy, opp)
      ob == WalkStop(board, x, y, -dx, -dy, opp)
      oppOpen == (IF WalkOpen(board, x, y, dx, dy, of) THEN 1 ELSE 0)
                 + (IF WalkOpen(board, x, y, -dx, -dy, ob) THEN 1 ELSE 0)
  IN  10 * OwnTerm((mf - 1) + (mb - 1) + 1, myOpen)
      + 9 * BlockTerm((of - 1) + (ob - 1) + 1, oppOpen)

\* 10 * scoreMoveQuick.
scoreMoveQuick(board, x, y, player) ==
  AxisScore(board, x, y, 0, 1, player)
  + AxisScore(board, x, y, 1, 0, player)
  + AxisScore(board, x, y, 1, 1, player)
  + AxisScore(board, x, y, 1, -1, player)
  + 10 * Max(0, 7 - (Abs(x - CENTER) + Abs(y - CENTER)))

\* ------------------------------------------------------------ terminal state

\* checkWin counting to four instead of five.
checkWinFour(board, player) ==
  \E i \in Idx, j \in Idx :
    /\ board[i][j] = player
    /\ \E d \in 1 .. 4 :
         \A k \in 1 .. 3 :
           /\ inBounds(i + DIRECTIONS[d][1] * k, j + DIRECTIONS[d][2] * k)
           /\ board[i + DIRECTIONS[d][1] * k][j + DIRECTIONS[d][2] * k] = player

\* The AI's whole-board test: some stone of `player` starts five cells of
\* `player` in a row (count >= 5 after looking at most 4 cells ahead).
checkWin(board, player) ==
  \E i \in Idx, j \in Idx :
    /\ board[i][j] = player
    /\ \E d \in 1 .. 4 :
         \A k \in 1 .. 4 :
           /\ inBounds(i + DIRECTIONS[d][1] * k, j + DIRECTIONS[d][2] * k)
           /\ board[i + DIRECTIONS[d][1] * k][j + DIRECTIONS[d][2] * k] = player

\* ------------------------------------------------------------- move ordering

\* Array.prototype.sort with (a, b) => b.score - a.score: descending by
\* score, stable (elements of equal score keep their order).
SortByScore(scored) ==
  LET L == Len(scored)
      tagged == [n \in 1 .. L |-> << scored[n].score, n >>]
      sorted == SortSeq(tagged,
                        LAMBDA a, b : a[1] > b[1] \/ (a[1] = b[1] /\ a[2] < b[2]))
  IN  [r \in 1 .. L |-> scored[sorted[r][2]]]

\* candidates.map(m => ({...m, score: scoreMoveQuick(board, m.x, m.y, player)}))
ScoreMoves(board, player, candidates) ==
  [n \in 1 .. Len(candidates) |->
     [x |-> candidates[n].x, y |-> candidates[n].y,
      score |-> scoreMoveQuick(board, candidates[n].x, candidates[n].y, player)]]

getOrderedMoves(board, player, radius) ==
  SortByScore(ScoreMoves(board, player, generateCandidates(board, radius)))

\* moves.slice(0, n)
Slice(moves, n) == SubSeq(moves, 1, Min(n, Len(moves)))

\* --------------------------------------------------------------- GameEngine

\* [dx, dy] as in js/game.js: x is the column, y the row, board[y][x].
GAME_DIRECTIONS == << <<1, 0>>, <<0, 1>>, <<1, 1>>, <<1, -1>> >>

\* GameEngine._inBounds, for integer x and y and size BOARD_SIZE.
GameInBounds(x, y) == x >= 0 /\ x < BOARD_SIZE /\ y >= 0 /\ y < BOARD_SIZE

\* isValidMove without the test that the cell is empty.
isValidMoveAnyCell(b, x, y) == GameInBounds(x, y)

isValidMove(b, x, y) == GameInBounds(x, y) /\ b[y][x] = 0

RECURSIVE ScanLine(_, _, _, _, _, _, _)
\* One scan loop of _collectLine: the number of cells pushed from step i
\* on, walking (dx, dy) from (x, y) until a cell is off the board or not
\* the player's.
ScanLine(b, x, y, dx, dy, who, i) ==
  IF ~GameInBounds(x + dx * i, y + dy * i) \/ b[y + dy * i][x + dx * i] # who
  THEN 0
  ELSE 1 + ScanLine(b, x, y, dx, dy, who, i + 1)

\* LineCells with the negative scan appending its cells (push) instead of
\* prepending them (unshift).
LineCellsPushed(x, y, dx, dy, neg, pos) ==
  [k \in 1 .. (neg + pos + 1) |->
     IF k <= pos + 1
     THEN [x |-> x + dx * (k - 1), y |-> y + dy * (k - 1)]
     ELSE [x |-> x - dx * (k - 1 - pos), y |-> y - dy * (k - 1 - pos)]]

\* The ordered line of _collectLine, given how many cells its negative and
\* positive scans found.
LineCells(x, y, dx, dy, neg, pos) ==
  [k \in 1 .. (neg + pos + 1) |->
     [x |-> x + dx * (k - 1 - neg), y |-> y + dy * (k - 1 - neg)]]

collectLine(b, x, y, dx, dy, who) ==
  LineCells(x, y, dx, dy, ScanLine(b, x, y, -dx, -dy, who, 1),
            ScanLine(b, x, y, dx, dy, who, 1))

\* LineWins with the overline flag ignored: five or more always wins.
LineWinsAtLeastFive(line, allowOverline) == Len(line) >= 5

\* The verdict of GameEngine.checkWin on one direction's line.
LineWins(line, allowOverline) ==
  IF allowOverline THEN Len(line) >= 5 ELSE Len(line) = 5

WonLine(line, allowOverline) ==
  [won |-> TRUE, line |-> IF allowOverline THEN SubSeq(line, 1, 5) ELSE line]

RECURSIVE CheckWinFrom(_, _, _, _, _, _)
\* The loop of GameEngine.checkWin from direction d on.
CheckWinFrom(b, x, y, who, allowOverline, d) ==
  IF d > Len(GAME_DIRECTIONS) THEN [won |-> FALSE, line |-> << >>]
  ELSE LET Decide(line) ==
             IF LineWins(line, allowOverline) THEN WonLine(line, allowOverline)
             ELSE CheckWinFrom(b, x, y, who, allowOverline, d + 1)
       IN  Decide(collectLine(b, x, y, GAME_DIRECTIONS[d][1],
                              GAME_DIRECTIONS[d][2], who))

\* GameEngine.checkWin(x, y, player) on board b, under the overline flag.
GameCheckWin(b, x, y, who, allowOverline) ==
  CheckWinFrom(b, x, y, who, allowOverline, 1)

\* GameBoardFull with the test inverted: true when an empty cell is found.
GameBoardFullInverted(b) == \E y \in Idx, x \in Idx : b[y][x] = 0

\* GameEngine.isBoardFull
GameBoardFull(b) == \A y \in Idx, x \in Idx : b[y][x] # 0

\* The cells around the stone at (x, y) that getSmartMoves pushes, as keys
\* ny * size + nx in the order of the loops over dy and dx, without the test
\* of `seen`.
SeenAroundRepeated(b, x, y, radius, seen) ==
  LET offs == Offsets(radius)
      keyAt(n) == (y + offs[n][1]) * BOARD_SIZE + (x + offs[n][2])
      ok(n) == /\ GameInBounds(x + offs[n][2], y + offs[n][1])
               /\ b[y + offs[n][1]][x + offs[n][2]] = 0
      pick == SelectSeq([n \in 1 .. Len(offs) |-> n], ok)
  IN  [m \in 1 .. Len(pick) |-> keyAt(pick[m])]

\* The cells around the stone at (x, y) that getSmartMoves pushes: in bounds,
\* empty, not seen before.
SeenAround(b, x, y, radius, seen) ==
  LET offs == Offsets(radius)
      keyAt(n) == (y + offs[n][1]) * BOARD_SIZE + (x + offs[n][2])
      ok(n) == /\ GameInBounds(x + offs[n][2], y + offs[n][1])
               /\ b[y + offs[n][1]][x + offs[n][2]] = 0
               /\ keyAt(n) \notin seen
      pick == SelectSeq([n \in 1 .. Len(offs) |-> n], ok)
  IN  [m \in 1 .. Len(pick) |-> keyAt(pick[m])]

RECURSIVE SmartScan(_, _, _, _, _)
\* The loops over y and x of getSmartMoves for the cells lo..hi (numbered
\* y * size + x), run from st = [moves, seen]; the range is split in halves,
\* first half first.
SmartScan(b, radius, lo, hi, st) ==
  IF lo = hi
  THEN LET y == lo \div BOARD_SIZE
           x == lo % BOARD_SIZE
       IN  IF b[y][x] = 0 THEN st
           ELSE LET new == SeenAround(b, x, y, radius, st.seen)
                IN  [moves |-> st.moves \o new,
                     seen |-> st.seen \cup {new[m] : m \in 1 .. Len(new)}]
  ELSE LET mid == (lo + hi) \div 2
           left == SmartScan(b, radius, lo, mid, st)
       IN  IF Len(left.moves) >= 0
           THEN SmartScan(b, radius, mid + 1, hi, left)
           ELSE left

\* { x: nx, y: ny } of the key ny * size + nx
SmartMove(key) == [x |-> key % BOARD_SIZE, y |-> key \div BOARD_SIZE]

\* GameEngine.getSmartMoves(radius) on the board b
getSmartMoves(b, radius) ==
  IF \A y \in Idx, x \in Idx : b[y][x] = 0
  THEN << [x |-> BOARD_SIZE \div 2, y |-> BOARD_SIZE \div 2] >>
  ELSE LET keys == SmartScan(b, radius, 0, BOARD_SIZE * BOARD_SIZE - 1,
                             [moves |-> << >>, seen |-> {}]).moves
       IN  [m \in 1 .. Len(keys) |-> SmartMove(keys[m])]

\* ------------------------------------------------------------------- state

VARIABLES
  pc,          \* "call": getMove is about to run; "search"; "done"
  boardArg,    \* what was passed as board: "null", "notArray" or "array"
  board,       \* the array passed as board; the search writes into it
  board0,      \* the contents of that array when getMove was entered
  player,      \* the acting player passed to getMove
  difficulty,  \* GomokuAI.difficulty
  engine,      \* the MinimaxEngine of this call: nodesSearched, timeLimit,
               \* timedOut, useAdvancedEval
  clock,       \* the last reading of Date.now() - startTime: 0 = at most
               \* 70% of the limit, 1 = above 70% and at most the limit,
               \* 2 = above the limit
  visited,     \* alphabeta calls made since getMove was entered
  root,        \* the locals of findBestMove / findBestMoveIterative
  stack,       \* the active alphabeta frames, innermost last
  completed,   \* history: the best move of each depth that finished
               \* without the timed-out flag, in order
  result,      \* what getMove returned or threw
  \* ---- the GameEngine object
  gameBoard,       \* this.board, read as gameBoard[y][x]
  currentPlayer,   \* this.currentPlayer
  moveHistory,     \* this.moveHistory
  gameOver,        \* this.gameOver
  winner,          \* this.winner: 0 none, 1 black, 2 white, 3 draw
  winLine,         \* this._winLine (<< >> for null)
  ALLOW_OVERLINE,  \* GameEngine.ALLOW_OVERLINE
  placed,          \* the last call on the engine: its arguments, the mover,
                   \* and what it returned
  prior,           \* history: the engine's fields when the last placeStone
                   \* began; `fresh`: it was accepted and no call followed;
                   \* `undid`: this.winner as the last undoMove found it
  \* ---- snapshots: an engine, its getState() and an engine that loads it
  heap,            \* the arrays and objects in memory, by address
  source,          \* the engine getState is called on
  snapshot,        \* the object getState returned (no object before)
  restored,        \* the engine loadState is called on
  original,        \* history: what `source` held when getState was called
  did,             \* history: the calls made, and how many writes went to
                   \* the snapshot and to the source after getState
  \* ---- move listing
  listed,          \* the last listing of candidate moves: the radius and the
                   \* board it was made for, the list getSmartMoves returned
                   \* and the list generateCandidates returned
  \* ---- the application controller
  gameActive,      \* gameActive
  aiThinking,      \* aiThinking
  moveCount,       \* moveCount: the human's stones of this game
  powerStones,     \* powerStones: the counts of bomb, shield and double
  activePower,     \* activePower: "bomb", "shield" or "null"
  doublePending,   \* doublePending
  timers,          \* the callbacks of triggerAITurn that setTimeout holds
  clicked,         \* history: the last event handled and the cell it named
  doubled,         \* history: what happened since Double was last activated
  \* ---- the CampaignManager
  campaign,        \* currentLevel, stars, unlockedLevel
  completion,      \* the last call of completeLevel: its arguments and what
                   \* it returned
  \* ---- single functions of ai.js, and a MinimaxEngine used more than once
  evaluated,       \* the last application of a function: its arguments and
                   \* what it returned
  asked,           \* the last call of setDifficulty: the level passed and
                   \* the difficulty stored before it
  calls,           \* the search calls made on the MinimaxEngine (their
                   \* number), and its fields as the last one found them
  deadlineAt,      \* the alphabeta call during which Date.now() - startTime
                   \* comes to exceed the time limit (no later than this
                   \* call where the readings are left open)
  \* ---- the application controller, continued
  mode,            \* mode: "null", "free" or "campaign"
  \* ---- the TrainingMode object
  training,        \* currentGame (0 for null, else its place in games),
                   \* currentStep, autoTimer (0 for null, else the id of
                   \* the interval), quizMode, quizAnswered
  intervals,       \* the ids of the intervals that setInterval started and
                   \* clearInterval has not cleared
  replay           \* history: the last call on the object and what it
                   \* returned, the calls made, the intervals started

aiVars == << pc, boardArg, board, board0, player, difficulty, engine, clock,
             visited, root, stack, completed, result >>

gameVars == << gameBoard, currentPlayer, moveHistory, gameOver, winner, winLine,
               ALLOW_OVERLINE, placed, prior >>

storeVars == << heap, source, snapshot, restored, original, did >>

\* What a call of getMove leaves alone, and what a call on the game leaves
\* alone.
appVars == << gameActive, aiThinking, moveCount, powerStones, activePower,
              doublePending, timers, clicked, doubled, mode >>

campaignVars == << campaign, completion >>

unitVars == << evaluated, asked, calls, deadlineAt >>

trainVars == << training, intervals, replay >>

outsideSearch == << gameVars, storeVars, listed, appVars, campaignVars, unitVars, trainVars >>
outsideGame == << aiVars, storeVars, listed, appVars, campaignVars, unitVars, trainVars >>
outsideStore == << aiVars, gameVars, listed, appVars, campaignVars, unitVars, trainVars >>
outsideListing == << aiVars, gameVars, storeVars, appVars, campaignVars, unitVars, trainVars >>
outsideCampaign == << aiVars, gameVars, storeVars, listed, appVars, unitVars, trainVars >>
outsideTraining == << aiVars, gameVars, storeVars, listed, appVars, campaignVars, unitVars >>

vars == << aiVars, gameVars, storeVars, listed, appVars, campaignVars, unitVars, trainVars >>

\* ------------------------------------------------------------------ bounds

\* The machine visits at most this many alphabeta nodes before the time
\* limit has passed: a time check made at or after it reads "over the limit".
NodeBudget == 900

\* ---------------------------------------------------------- search constants

TimeCheckInterval == 1000
RootWidth == 20
MediumDepth == 2
HardDepth == 4
MasterMaxDepth == 6
MediumTimeLimit == 1000
HardTimeLimit == 3000
MasterTimeLimit == 2000

\* const maxMoves = depth <= 1 ? 10 : (depth <= 2 ? 15 : 20)
MaxMoves(depth) == IF depth <= 1 THEN 10 ELSE IF depth <= 2 THEN 15 ELSE 20

\* What getMove gave back: kind "move" with the cell, or kind "throw" (a
\* TypeError left getMove).  `via` records the return statement taken.
NoResult == [kind |-> "none", x |-> -1, y |-> -1, via |-> "none"]
Returned(m, via) == [kind |-> "move", x |-> m.x, y |-> m.y, via |-> via]
Thrown == [kind |-> "throw", x |-> -1, y |-> -1, via |-> "throw"]

NoRoot == [iter |-> FALSE, st |-> "none", depth |-> 0, maxDepth |-> 0,
           moves |-> << >>, idx |-> 0, best |-> 0, bestScore |-> 0,
           kept |-> 0]

FreshEngine == [nodesSearched |-> 0, timeLimit |-> 0, timedOut |-> FALSE,
                useAdvancedEval |-> FALSE]

\* ----------------------------------------------------- make / unmake a move

\* board[move.x][move.y] = who
MakeMove(b, move, who) == Place(b, move.x, move.y, who)

\* board[move.x][move.y] = EMPTY after a scan's trial placement
UndoTrial(b, move) == Place(b, move.x, move.y, EMPTY)

\* UndoMove with the assignment left out.
UndoMoveSkipped(b, move) == b

\* board[move.x][move.y] = EMPTY after the recursive call returns
UndoMove(b, move) == Place(b, move.x, move.y, EMPTY)

\* What one pass of a scan loop leaves, given its verdict `hit`.
TrialResult(b, move, k, hit) ==
  [hit |-> hit, at |-> IF hit THEN k ELSE 0, board |-> UndoTrial(b, move)]

\* One pass of a scan loop: "place who; if (checkWin) { remove; return }
\* remove" for candidate k, on the board b1 with the stone placed.
TrialOn(b1, move, k, who) == TrialResult(b1, move, k, checkWin(b1, who))

Trial(b, moves, k, who) == TrialOn(MakeMove(b, moves[k], who), moves[k], k, who)

RECURSIVE ScanWin(_, _, _, _, _)
\* The scan loop over candidates lo..hi: whether it returned, at which
\* index, and the board it leaves.  The range is split in halves, first
\* half first, so the candidates are still tried in order.
ScanWin(b, moves, lo, hi, who) ==
  IF lo > hi THEN [hit |-> FALSE, at |-> 0, board |-> b]
  ELSE IF lo = hi THEN Trial(b, moves, lo, who)
  ELSE LET Rest(left) == IF left.hit THEN left
                         ELSE ScanWin(left.board, moves, (lo + hi) \div 2 + 1, hi, who)
       IN  Rest(ScanWin(b, moves, lo, (lo + hi) \div 2, who))

\* ------------------------------------------------------------ easy strategy

\* A pass of easyMove's block loop: it returns only at candidate `taken`.
EasyTrial(t, k, taken) ==
  IF t.hit /\ k = taken THEN t ELSE [hit |-> FALSE, at |-> 0, board |-> t.board]

RECURSIVE EasyBlockScan(_, _, _, _, _, _)
\* easyMove's block loop over candidates lo..hi, when Math.random() < 0.7
\* holds at the blocking candidate `taken` and fails at every other one.
EasyBlockScan(b, cands, lo, hi, opp, taken) ==
  IF lo > hi THEN [hit |-> FALSE, at |-> 0, board |-> b]
  ELSE IF lo = hi THEN EasyTrial(Trial(b, cands, lo, opp), lo, taken)
  ELSE LET Rest(left) ==
             IF left.hit THEN left
             ELSE EasyBlockScan(left.board, cands, (lo + hi) \div 2 + 1, hi, opp, taken)
       IN  Rest(EasyBlockScan(b, cands, lo, (lo + hi) \div 2, opp, taken))

\* easyMove after its win loop found nothing: a blocking candidate at
\* which the random test passes, or the weighted random pick (every
\* candidate has a positive weight).
EasyBlockOrRandom(b, candidates, opp) ==
  {[move |-> Move(candidates[k].x, candidates[k].y),
    board |-> EasyBlockScan(b, candidates, 1, Len(candidates), opp, k).board]
     : k \in {c \in 1 .. Len(candidates) :
                checkWin(MakeMove(b, candidates[c], opp), opp)}}
  \cup
  {[move |-> Move(candidates[n].x, candidates[n].y),
    board |-> EasyBlockScan(b, candidates, 1, Len(candidates), opp, 0).board]
     : n \in 1 .. Len(candidates)}

EasyAfterWinScan(candidates, who, win) ==
  IF win.hit
  THEN {[move |-> Move(candidates[win.at].x, candidates[win.at].y),
         board |-> win.board]}
  ELSE EasyBlockOrRandom(win.board, candidates, opponent(who))

EasyFrom(b, who, candidates) ==
  IF Len(candidates) = 0 THEN {[move |-> CenterMove, board |-> b]}
  ELSE EasyAfterWinScan(candidates, who,
                        ScanWin(b, candidates, 1, Len(candidates), who))

\* Every (move, board left) easyMove can produce.
easyMove(b, who) == EasyFrom(b, who, generateCandidates(b, 1))

\* --------------------------------------------------------------- opening book

DiagonalMoves ==
  << Move(CENTER - 1, CENTER - 1), Move(CENTER - 1, CENTER + 1),
     Move(CENTER + 1, CENTER - 1), Move(CENTER + 1, CENTER + 1) >>

KnightMoves ==
  << Move(CENTER - 2, CENTER - 1), Move(CENTER - 2, CENTER + 1),
     Move(CENTER - 1, CENTER - 2), Move(CENTER - 1, CENTER + 2),
     Move(CENTER + 1, CENTER - 2), Move(CENTER + 1, CENTER + 2),
     Move(CENTER + 2, CENTER - 1), Move(CENTER + 2, CENTER + 1) >>

SeqRange(s) == {s[n] : n \in 1 .. Len(s)}

\* OPENING_BOOK with the filters on empty cells left out.
OpeningBookUnfiltered(b) ==
  LET n == countStones(b)
      centerTaken == b[CENTER][CENTER] # EMPTY
  IN  IF n = 0 THEN {CenterMove}
      ELSE IF n = 1 /\ centerTaken THEN SeqRange(DiagonalMoves)
      ELSE IF n = 1 /\ ~centerTaken THEN {CenterMove}
      ELSE IF n = 2 /\ centerTaken THEN SeqRange(KnightMoves)
      ELSE {}

\* The moves masterMove's loop over OPENING_BOOK can return ({} when it
\* falls through to the search).  An entry with `move` returns whenever its
\* condition holds; the entries with `moves` and `generator` return one of
\* the valid cells, or fall through to the next entry.
OPENING_BOOK(b) ==
  LET n == countStones(b)
      centerTaken == b[CENTER][CENTER] # EMPTY
  IN  IF n = 0 THEN {CenterMove}
      ELSE IF n = 1 /\ centerTaken
      THEN {m \in SeqRange(DiagonalMoves) : b[m.x][m.y] = EMPTY}
      ELSE IF n = 1 /\ ~centerTaken THEN {CenterMove}
      ELSE IF n = 2 /\ centerTaken
      THEN {m \in SeqRange(KnightMoves) :
              m.x >= 0 /\ m.x < BOARD_SIZE /\ m.y >= 0 /\ m.y < BOARD_SIZE
              /\ b[m.x][m.y] = EMPTY}
      ELSE {}

\* --------------------------------------------------------------- alphabeta

RetFrame(v) ==
  [st |-> "ret", moves |-> << >>, idx |-> 0, value |-> v, alpha |-> 0,
   beta |-> 0, depth |-> 0, cur |-> 0, isMax |-> FALSE]

LoopFrame(moves, depth, alpha, beta, cur, isMax) ==
  [st |-> "loop", moves |-> moves, idx |-> 1,
   value |-> IF isMax THEN -INF ELSE INF,
   alpha |-> alpha, beta |-> beta, depth |-> depth, cur |-> cur,
   isMax |-> isMax]

StripScores(moves) == [n \in 1 .. Len(moves) |-> Move(moves[n].x, moves[n].y)]

\* The static evaluation the search uses, times ValueScale.
Evaluate(b, maximizingPlayer, useAdvancedEval) ==
  IF useAdvancedEval THEN evaluateBoardAdvanced(b, maximizingPlayer)
  ELSE 2 * evaluateBoard(b, maximizingPlayer)

\* ChecksTime with the clock read every 2000 calls.
ChecksTimeRarely(eng) ==
  eng.timeLimit > 0 /\ (eng.nodesSearched + 1) % (2 * TimeCheckInterval) = 0

\* Whether this call of alphabeta reads the clock.
ChecksTime(eng) ==
  eng.timeLimit > 0 /\ (eng.nodesSearched + 1) % TimeCheckInterval = 0

\* The time check of this call finds the limit passed.
TimeIsUp(eng, now) == ChecksTime(eng) /\ now = 2

\* alphabeta from "const moves = ..." to the start of its loop.
ExpandNode(b, depth, alpha, beta, maximizingPlayer, mover, isMaximizing, eng, movesToSearch) ==
  IF Len(movesToSearch) = 0
  THEN RetFrame(Evaluate(b, maximizingPlayer, eng.useAdvancedEval))
  ELSE LoopFrame(movesToSearch, depth, alpha, beta, mover, isMaximizing)

\* alphabeta with the test "depth === 0 || isBoardFull" made before the two
\* tests of checkWin.
alphabetaEvaluateFirst(b, depth, alpha, beta, maximizingPlayer, mover, isMaximizing, eng, now) ==
  [engine |-> [eng EXCEPT !.nodesSearched = @ + 1,
                          !.timedOut = IF TimeIsUp(eng, now) THEN TRUE ELSE @],
   frame |->
     IF TimeIsUp(eng, now) THEN RetFrame(0)
     ELSE IF eng.timedOut THEN RetFrame(0)
     ELSE IF depth = 0 \/ isBoardFull(b)
          THEN RetFrame(Evaluate(b, maximizingPlayer, eng.useAdvancedEval))
     ELSE IF checkWin(b, maximizingPlayer)
          THEN RetFrame(ValueScale * (WIN_SCORE + depth))
     ELSE IF checkWin(b, opponent(maximizingPlayer))
          THEN RetFrame(-(ValueScale * (WIN_SCORE + depth)))
     ELSE ExpandNode(b, depth, alpha, beta, maximizingPlayer, mover,
                     isMaximizing, eng,
                     Slice(StripScores(getOrderedMoves(b, mover, 2)),
                           MaxMoves(depth)))]

\* alphabeta from its first line to the start of its loop over the moves:
\* the engine fields it leaves, and its frame (a frame "ret" has returned
\* `value`).  `mover` is its currentPlayer, `now` the clock reading of its
\* time check, if it makes one.
alphabeta(b, depth, alpha, beta, maximizingPlayer, mover, isMaximizing, eng, now) ==
  [engine |-> [eng EXCEPT !.nodesSearched = @ + 1,
                          !.timedOut = IF TimeIsUp(eng, now) THEN TRUE ELSE @],
   frame |->
     IF TimeIsUp(eng, now) THEN RetFrame(0)
     ELSE IF eng.timedOut THEN RetFrame(0)
     ELSE IF checkWin(b, maximizingPlayer)
          THEN RetFrame(ValueScale * (WIN_SCORE + depth))
     ELSE IF checkWin(b, opponent(maximizingPlayer))
          THEN RetFrame(-(ValueScale * (WIN_SCORE + depth)))
     ELSE IF depth = 0 \/ isBoardFull(b)
          THEN RetFrame(Evaluate(b, maximizingPlayer, eng.useAdvancedEval))
     ELSE ExpandNode(b, depth, alpha, beta, maximizingPlayer, mover,
                     isMaximizing, eng,
                     Slice(StripScores(getOrderedMoves(b, mover, 2)),
                           MaxMoves(depth)))]

RECURSIVE minimax(_, _, _, _, _, _), MinimaxOver(_, _, _, _, _, _, _, _)

\* alphabeta without alpha, beta and the two "break" statements, and with
\* no time limit: the terminal scoring, the depth limit and the ordered,
\* capped move list are those of alphabeta.
minimax(b, depth, maximizingPlayer, mover, isMaximizing, useAdvancedEval) ==
  IF checkWin(b, maximizingPlayer) THEN ValueScale * (WIN_SCORE + depth)
  ELSE IF checkWin(b, opponent(maximizingPlayer))
       THEN -(ValueScale * (WIN_SCORE + depth))
  ELSE IF depth = 0 \/ isBoardFull(b)
       THEN Evaluate(b, maximizingPlayer, useAdvancedEval)
  ELSE MinimaxOver(b, Slice(StripScores(getOrderedMoves(b, mover, 2)),
                            MaxMoves(depth)),
                   1, depth, maximizingPlayer, mover, isMaximizing,
                   useAdvancedEval)

\* The loop over moves[k], moves[k + 1], ... of minimax: the largest (the
\* smallest, when minimizing) of the values of the children.
MinimaxOver(b, moves, k, depth, maximizingPlayer, mover, isMaximizing, useAdvancedEval) ==
  IF Len(moves) = 0 THEN Evaluate(b, maximizingPlayer, useAdvancedEval)
  ELSE IF k = Len(moves)
  THEN minimax(MakeMove(b, moves[k], mover), depth - 1, maximizingPlayer,
               opponent(mover), ~isMaximizing, useAdvancedEval)
  ELSE IF isMaximizing
  THEN Max(minimax(MakeMove(b, moves[k], mover), depth - 1, maximizingPlayer,
                   opponent(mover), ~isMaximizing, useAdvancedEval),
           MinimaxOver(b, moves, k + 1, depth, maximizingPlayer, mover,
                       isMaximizing, useAdvancedEval))
  ELSE Min(minimax(MakeMove(b, moves[k], mover), depth - 1, maximizingPlayer,
                   opponent(mover), ~isMaximizing, useAdvancedEval),
           MinimaxOver(b, moves, k + 1, depth, maximizingPlayer, mover,
                       isMaximizing, useAdvancedEval))

RECURSIVE TreeSize(_, _, _, _), TreeSizeOver(_, _, _, _, _, _)

\* The number of calls minimax makes from this node on, the node included.
TreeSize(b, depth, maximizingPlayer, mover) ==
  IF checkWin(b, maximizingPlayer) \/ checkWin(b, opponent(maximizingPlayer))
     \/ depth = 0 \/ isBoardFull(b)
  THEN 1
  ELSE 1 + TreeSizeOver(b, Slice(StripScores(getOrderedMoves(b, mover, 2)),
                                 MaxMoves(depth)),
                        1, depth, maximizingPlayer, mover)

TreeSizeOver(b, moves, k, depth, maximizingPlayer, mover) ==
  IF k > Len(moves) THEN 0
  ELSE TreeSize(MakeMove(b, moves[k], mover), depth - 1, maximizingPlayer,
                opponent(mover))
       + TreeSizeOver(b, moves, k + 1, depth, maximizingPlayer, mover)

\* AfterChild without the test of the timed-out flag.
AfterChildNoAbort(f, score, timedOut) ==
  IF (IF f.isMax THEN Max(f.alpha, Max(f.value, score)) >= f.beta
      ELSE f.alpha >= Min(f.beta, Min(f.value, score)))
     \/ f.idx = Len(f.moves)
  THEN RetFrame(IF f.isMax THEN Max(f.value, score) ELSE Min(f.value, score))
  ELSE [f EXCEPT !.idx = @ + 1,
                 !.value = IF f.isMax THEN Max(f.value, score)
                           ELSE Min(f.value, score),
                 !.alpha = IF f.isMax THEN Max(f.alpha, Max(f.value, score))
                           ELSE f.alpha,
                 !.beta = IF f.isMax THEN f.beta
                          ELSE Min(f.beta, Min(f.value, score))]

\* AfterChild with the "break" taken after every child.
AfterChildCutAlways(f, score, timedOut) ==
  IF timedOut THEN RetFrame(f.value)
  ELSE RetFrame(IF f.isMax THEN Max(f.value, score) ELSE Min(f.value, score))

\* AfterRootChild with "score >= bestScore" for "score > bestScore".
AfterRootChildLatest(r, score, timedOut) ==
  IF timedOut THEN [r EXCEPT !.st = "end"]
  ELSE [r EXCEPT !.bestScore = IF score >= r.bestScore THEN score ELSE @,
                 !.best = IF score >= r.bestScore THEN r.idx ELSE @,
                 !.st = IF r.idx = Min(RootWidth, Len(r.moves)) THEN "end" ELSE @,
                 !.idx = IF r.idx = Min(RootWidth, Len(r.moves)) THEN @ ELSE @ + 1]

\* The caller's frame after the recursive call returned `score` and the
\* stone was removed: lines 488-493 and 505-510.
AfterChild(f, score, timedOut) ==
  IF timedOut THEN RetFrame(f.value)
  ELSE LET value == IF f.isMax THEN Max(f.value, score) ELSE Min(f.value, score)
           alpha == IF f.isMax THEN Max(f.alpha, value) ELSE f.alpha
           beta == IF f.isMax THEN f.beta ELSE Min(f.beta, value)
       IN  IF alpha >= beta \/ f.idx = Len(f.moves) THEN RetFrame(value)
           ELSE [f EXCEPT !.idx = @ + 1, !.value = value,
                          !.alpha = alpha, !.beta = beta]

\* The root loop after the recursive call returned `score` and the stone
\* was removed: lines 565-570 and 629-634.
AfterRootChild(r, score, timedOut) ==
  IF timedOut THEN [r EXCEPT !.st = "end"]
  ELSE LET better == score > r.bestScore
           r1 == [r EXCEPT !.bestScore = IF better THEN score ELSE @,
                           !.best = IF better THEN r.idx ELSE @]
       IN  IF r.idx = Min(RootWidth, Len(r.moves))
           THEN [r1 EXCEPT !.st = "end"]
           ELSE [r1 EXCEPT !.idx = @ + 1]

\* ----------------------------------------------------- the two search drivers

\* What a driver has when it stops before its search loop (done), or
\* when it enters it.
Entry(done, move, b, moves, via) ==
  [done |-> done, move |-> move, board |-> b, moves |-> moves, via |-> via]

\* After the loop "check for immediate blocking moves".
AfterBlockScan(moves, block) ==
  IF block.hit THEN Entry(TRUE, moves[block.at], block.board, moves, "block")
  ELSE Entry(FALSE, CenterMove, block.board, moves, "search")

\* The two scans with the loop over the blocking moves run first.
BlockScanFirst(moves, who, win) ==
  IF ScanWin(win.board, moves, 1, Len(moves), opponent(who)).hit
  THEN AfterBlockScan(moves,
                      ScanWin(win.board, moves, 1, Len(moves), opponent(who)))
  ELSE IF win.hit THEN Entry(TRUE, moves[win.at], win.board, moves, "win")
  ELSE Entry(FALSE, CenterMove, win.board, moves, "search")

\* After the loop "check for immediate winning moves".
AfterWinScan(moves, who, win) ==
  IF win.hit THEN Entry(TRUE, moves[win.at], win.board, moves, "win")
  ELSE AfterBlockScan(moves,
                      ScanWin(win.board, moves, 1, Len(moves), opponent(who)))

ImmediateScans(b, moves, who) ==
  AfterWinScan(moves, who, ScanWin(b, moves, 1, Len(moves), who))

FindBestFrom(b, who, moves) ==
  IF Len(moves) = 0 THEN Entry(TRUE, CenterMove, b, moves, "none")
  ELSE IF Len(moves) = 1 THEN Entry(TRUE, moves[1], b, moves, "single")
  ELSE ImmediateScans(b, moves, who)

\* findBestMove up to its search loop: the result it returns at once
\* (done), or the ordered moves the search starts from, and the board left.
findBestMove(b, who) ==
  FindBestFrom(b, who, StripScores(getOrderedMoves(b, who, 2)))

FindBestIterativeFrom(b, who, moves) ==
  IF Len(moves) = 0 THEN Entry(TRUE, CenterMove, b, moves, "none")
  ELSE ImmediateScans(b, moves, who)

\* findBestMoveIterative up to its deepening loop.
findBestMoveIterative(b, who) ==
  FindBestIterativeFrom(b, who, StripScores(getOrderedMoves(b, who, 2)))

\* The root locals when a search loop starts at `depth`.
StartRoot(iter, moves, depth, maxDepth, kept) ==
  [iter |-> iter, st |-> "loop", depth |-> depth, maxDepth |-> maxDepth,
   moves |-> moves, idx |-> 1, best |-> 1, bestScore |-> -INF, kept |-> kept]

\* KeepBest without the test of the timed-out flag.
KeepBestAlways(kept, depthBest, timedOut) == depthBest

\* if (!this.timedOut) bestMove = depthBestMove   (an index into moves, 0 = null)
KeepBest(kept, depthBest, timedOut) == IF ~timedOut THEN depthBest ELSE kept

\* The arguments mediumMove, hardMove and masterMove pass to the search.
SearchTimeLimit(d) ==
  IF d = "master" THEN MasterTimeLimit
  ELSE IF d = "hard" THEN HardTimeLimit ELSE MediumTimeLimit

\* The depth the first search loop runs at, and the last.
FirstDepth(d) ==
  IF d = "master" THEN 1 ELSE IF d = "hard" THEN HardDepth ELSE MediumDepth

LastDepth(d) ==
  IF d = "master" THEN MasterMaxDepth
  ELSE IF d = "hard" THEN HardDepth ELSE MediumDepth

\* ------------------------------------------------------------------ getMove

\* Clock readings a time check can get: the clock does not run backwards,
\* and it is over the limit once NodeBudget nodes have been visited.
Readings(n) ==
  IF n >= NodeBudget THEN {2} ELSE {c \in 0 .. 2 : c >= clock}

\* board[i][j] of the first full scan throws a TypeError: some row index
\* below BOARD_SIZE has no row.
ScanThrows(b) == \E i \in Idx : i \notin DOMAIN b

\* getMove: validation, dispatch on the difficulty, and the chosen strategy
\* up to its first recursive search call (or to its return).
GetMove ==
  /\ pc = "call"
  /\ UNCHANGED outsideSearch
  /\ UNCHANGED << boardArg, board0, player, difficulty, clock, visited,
                  stack, completed >>
  /\ IF boardArg # "array" \/ DOMAIN board = {}
     THEN /\ result' = Returned(CenterMove, "invalid")
          /\ pc' = "done"
          /\ UNCHANGED << board, engine, root >>
     ELSE IF ScanThrows(board)
     THEN /\ result' = Thrown
          /\ pc' = "done"
          /\ UNCHANGED << board, engine, root >>
     ELSE IF difficulty = "easy"
     THEN /\ \E o \in easyMove(board, player) :
               /\ result' = Returned(o.move, "easy")
               /\ board' = o.board
          /\ pc' = "done"
          /\ UNCHANGED << engine, root >>
     ELSE IF difficulty = "master" /\ OPENING_BOOK(board) # {}
     THEN /\ \E m \in OPENING_BOOK(board) : result' = Returned(m, "book")
          /\ pc' = "done"
          /\ UNCHANGED << board, engine, root >>
     ELSE \E e \in {IF difficulty = "master"
                    THEN findBestMoveIterative(board, player)
                    ELSE findBestMove(board, player)} :
            /\ board' = e.board
            /\ engine' = [nodesSearched |-> 0,
                          timeLimit |-> SearchTimeLimit(difficulty),
                          timedOut |-> FALSE,
                          useAdvancedEval |-> difficulty \in {"hard", "master"}]
            /\ IF e.done
               THEN /\ result' = Returned(e.move, e.via)
                    /\ pc' = "done"
                    /\ root' = root
               ELSE /\ result' = result
                    /\ pc' = "search"
                    /\ root' = StartRoot(difficulty = "master", e.moves,
                                         FirstDepth(difficulty),
                                         LastDepth(difficulty), 0)

\* The loop that is about to place its next move: the root loop, or the
\* innermost alphabeta frame.
Caller ==
  IF stack = << >>
  THEN [move |-> root.moves[root.idx], who |-> player, depth |-> root.depth,
        alpha |-> -INF, beta |-> INF, childMax |-> FALSE]
  ELSE [move |-> stack[Len(stack)].moves[stack[Len(stack)].idx],
        who |-> stack[Len(stack)].cur, depth |-> stack[Len(stack)].depth,
        alpha |-> stack[Len(stack)].alpha, beta |-> stack[Len(stack)].beta,
        childMax |-> ~stack[Len(stack)].isMax]

\* The innermost active loop places its next move and calls alphabeta,
\* which runs to the start of its own loop or to its return.
Descend ==
  /\ pc = "search"
  /\ UNCHANGED outsideSearch
  /\ IF stack = << >> THEN root.st = "loop" ELSE stack[Len(stack)].st = "loop"
  /\ \E now \in (IF ChecksTime(engine) THEN Readings(visited + 1) ELSE {clock}),
        c \in {Caller} :
       \E b1 \in {MakeMove(board, c.move, c.who)} :
         \E r \in {alphabeta(b1, c.depth - 1, c.alpha, c.beta, player,
                              opponent(c.who), c.childMax, engine, now)} :
           /\ board' = b1
           /\ engine' = r.engine
           /\ stack' = Append(stack, r.frame)
           /\ clock' = now
           /\ visited' = visited + 1
  /\ UNCHANGED << pc, boardArg, board0, player, difficulty, root, completed,
                  result >>

\* The innermost call has returned: its caller removes the stone and goes on
\* with its loop, or returns in turn.
Return ==
  /\ pc = "search"
  /\ UNCHANGED outsideSearch
  /\ stack # << >>
  /\ stack[Len(stack)].st = "ret"
  /\ IF Len(stack) = 1
     THEN /\ board' = UndoMove(board, root.moves[root.idx])
          /\ root' = AfterRootChild(root, stack[Len(stack)].value,
                                    engine.timedOut)
          /\ stack' = << >>
     ELSE \E f \in {stack[Len(stack) - 1]} :
            /\ board' = UndoMove(board, f.moves[f.idx])
            /\ stack' = [SubSeq(stack, 1, Len(stack) - 1)
                           EXCEPT ![Len(stack) - 1] =
                             AfterChild(f, stack[Len(stack)].value,
                                        engine.timedOut)]
            /\ root' = root
  /\ UNCHANGED << pc, boardArg, board0, player, difficulty, engine, clock,
                  visited, completed, result >>

\* The root loop is over: findBestMove returns; findBestMoveIterative keeps
\* the depth's best move if the depth finished, and deepens or returns.
RootEnd ==
  /\ pc = "search"
  /\ UNCHANGED outsideSearch
  /\ stack = << >>
  /\ root.st = "end"
  /\ UNCHANGED << boardArg, board, board0, player, difficulty, visited, stack >>
  /\ IF ~root.iter
     THEN /\ result' = Returned(root.moves[root.best], "search")
          /\ pc' = "done"
          /\ UNCHANGED << engine, clock, root, completed >>
     ELSE LET kept == KeepBest(root.kept, root.best, engine.timedOut)
              won == root.bestScore >= ValueScale * WIN_SCORE
          IN  /\ completed' = IF ~engine.timedOut
                              THEN Append(completed, root.moves[root.best])
                              ELSE completed
              /\ \E now \in (IF won THEN {clock} ELSE Readings(visited)) :
                   /\ clock' = now
                   /\ IF won \/ now >= 1 \/ root.depth = root.maxDepth
                      THEN /\ result' = Returned(
                                 IF kept # 0 THEN root.moves[kept]
                                 ELSE root.moves[1], "search")
                           /\ pc' = "done"
                           /\ root' = [root EXCEPT !.kept = kept]
                           /\ engine' = engine
                      ELSE /\ result' = result
                           /\ pc' = pc
                           /\ root' = StartRoot(TRUE, root.moves, root.depth + 1,
                                                root.maxDepth, kept)
                           /\ engine' = [engine EXCEPT !.nodesSearched = 0,
                                                       !.timedOut = FALSE]

\* ---------------------------------------------------------------- positions

EmptyBoard == [i \in Idx |-> [j \in Idx |-> EMPTY]]

\* The board with black stones on `blk` and white stones on `wht`.
MkBoard(blk, wht) ==
  [i \in Idx |-> [j \in Idx |->
     IF << i, j >> \in blk THEN BLACK
     ELSE IF << i, j >> \in wht THEN WHITE ELSE EMPTY]]

\* The same position with the colours exchanged.
SwapColours(b) ==
  [i \in Idx |-> [j \in Idx |->
     IF b[i][j] = BLACK THEN WHITE ELSE IF b[i][j] = WHITE THEN BLACK ELSE b[i][j]]]

\* Where a line along direction d starts so that its offsets 0..6 are on
\* the board: the middle row, the middle column, the two long diagonals.
Anchor(d) ==
  IF d = 1 THEN << CENTER, 0 >>
  ELSE IF d = 2 THEN << 0, CENTER >>
  ELSE IF d = 3 THEN << 0, 0 >>
  ELSE << 0, 6 >>

\* The cells at the offsets `offs` of the line along direction d.
Line(d, offs) ==
  {<< Anchor(d)[1] + DIRECTIONS[d][1] * k, Anchor(d)[2] + DIRECTIONS[d][2] * k >>
     : k \in offs}

\* The cells at the offsets `offs` of the row `r`.
Row(r, offs) == {<< r, k >> : k \in offs}

\* ------------------------------------------------------- GameEngine methods

\* The most stones the explored games place on top of the starting position.
MaxPlaced == 1

NoCall == [op |-> "none", x |-> -1, y |-> -1, player |-> 0, valid |-> FALSE,
           winner |-> 0, winLine |-> << >>, reason |-> ""]

Refused(x, y, reason) ==
  [op |-> "placeStone", x |-> x, y |-> y, player |-> currentPlayer,
   valid |-> FALSE, winner |-> 0, winLine |-> << >>, reason |-> reason]

Accepted(x, y, w, line) ==
  [op |-> "placeStone", x |-> x, y |-> y, player |-> currentPlayer,
   valid |-> TRUE, winner |-> w, winLine |-> line, reason |-> ""]

\* The engine's fields now, kept as history.
Snapshot(fresh) ==
  [fresh |-> fresh, board |-> gameBoard, currentPlayer |-> currentPlayer,
   moveHistory |-> moveHistory, gameOver |-> gameOver, winner |-> winner,
   winLine |-> winLine, undid |-> 0]

\* GameEngine.placeStone(x, y)
placeStone(x, y) ==
  /\ UNCHANGED ALLOW_OVERLINE
  /\ prior' = Snapshot(~gameOver /\ isValidMove(gameBoard, x, y))
  /\ IF gameOver
     THEN /\ placed' = Refused(x, y, "Game is already over")
          /\ UNCHANGED << gameBoard, currentPlayer, moveHistory, gameOver,
                          winner, winLine >>
     ELSE IF ~isValidMove(gameBoard, x, y)
     THEN /\ placed' = Refused(x, y, IF ~GameInBounds(x, y)
                                     THEN "Position out of bounds"
                                     ELSE "Cell is already occupied")
          /\ UNCHANGED << gameBoard, currentPlayer, moveHistory, gameOver,
                          winner, winLine >>
     ELSE \E b1 \in {[gameBoard EXCEPT ![y][x] = currentPlayer]} :
          \E winResult \in {GameCheckWin(b1, x, y, currentPlayer, ALLOW_OVERLINE)} :
            /\ gameBoard' = b1
            /\ moveHistory' = Append(moveHistory,
                                     [x |-> x, y |-> y, player |-> currentPlayer,
                                      moveNumber |-> Len(moveHistory) + 1])
            /\ IF winResult.won
               THEN /\ gameOver' = TRUE
                    /\ winner' = currentPlayer
                    /\ winLine' = winResult.line
                    /\ currentPlayer' = currentPlayer
                    /\ placed' = Accepted(x, y, currentPlayer, winResult.line)
               ELSE IF GameBoardFull(b1)
               THEN /\ gameOver' = TRUE
                    /\ winner' = 3
                    /\ winLine' = winLine
                    /\ currentPlayer' = currentPlayer
                    /\ placed' = Accepted(x, y, 3, << >>)
               ELSE /\ currentPlayer' = IF currentPlayer = 1 THEN 2 ELSE 1
                    /\ UNCHANGED << gameOver, winner, winLine >>
                    /\ placed' = Accepted(x, y, 0, << >>)

\* The cells the explored calls of placeStone name, as << x, y >>: cells of
\* the four lines of the starting positions, and two cells off the board.
PlaceCells ==
  {<< Anchor(d)[2] + DIRECTIONS[d][2] * k, Anchor(d)[1] + DIRECTIONS[d][1] * k >>
     : d \in 1 .. 4, k \in {2, 4, 5}}
  \cup {<< -1, 0 >>, << 0, BOARD_SIZE >>}

PlaceStone ==
  /\ pc = "idle"
  /\ \E c \in PlaceCells :
       /\ \/ Len(moveHistory) < MaxPlaced
          \/ gameOver
          \/ ~isValidMove(gameBoard, c[1], c[2])
       /\ placeStone(c[1], c[2])
  /\ UNCHANGED outsideGame

\* UndoneTurn with the turn given to the other player.
UndoneTurnOther(move) == IF move.player = 1 THEN 2 ELSE 1

\* UndoneTurn with the turn left as it is.
UndoneTurnKept(move) == currentPlayer

\* this.currentPlayer = move.player
UndoneTurn(move) == move.player

\* GameEngine.undoMove()
undoMove ==
  /\ pc = "idle"
  /\ UNCHANGED ALLOW_OVERLINE
  /\ prior' = [prior EXCEPT !.fresh = FALSE, !.undid = winner]
  /\ UNCHANGED outsideGame
  /\ IF Len(moveHistory) = 0
     THEN /\ placed' = [NoCall EXCEPT !.op = "undoMove"]
          /\ UNCHANGED << gameBoard, currentPlayer, moveHistory, gameOver,
                          winner, winLine >>
     ELSE \E move \in {moveHistory[Len(moveHistory)]} :
            /\ moveHistory' = SubSeq(moveHistory, 1, Len(moveHistory) - 1)
            /\ gameBoard' = [gameBoard EXCEPT ![move.y][move.x] = 0]
            /\ currentPlayer' = UndoneTurn(move)
            /\ gameOver' = FALSE
            /\ winner' = 0
            /\ winLine' = << >>
            /\ placed' = [op |-> "undoMove", x |-> move.x, y |-> move.y,
                          player |-> move.player, valid |-> TRUE, winner |-> 0,
                          winLine |-> << >>, reason |-> ""]

\* A full board with no five in a row: along the rows the colours alternate,
\* along the columns and the diagonals they come in pairs.
DrawnBoard ==
  [i \in Idx |-> [j \in Idx |-> IF (i + 2 * j) % 4 < 2 THEN BLACK ELSE WHITE]]

\* The board b with the cells `holes` emptied.
WithHoles(b, holes) ==
  [i \in Idx |-> [j \in Idx |-> IF << i, j >> \in holes THEN EMPTY ELSE b[i][j]]]

\* ------------------------------------------------------------ input boards

\* Positions with a four or more of black on a line (white to the side):
\* an open four, an open four with a stone one gap away, a four closed at
\* one end, a split four, and runs of five, six and seven.
LineShapes ==
  { 1 .. 4, {0} \cup (2 .. 5), 0 .. 3, {0, 1, 3, 4}, 0 .. 4, 0 .. 5, 1 .. 6, 0 .. 6 }

LineBoards ==
  { MkBoard(Line(d, sh), IF d = 1 THEN Row(CENTER + 2, {1, 3}) ELSE Row(CENTER, {}))
      : d \in 1 .. 4, sh \in LineShapes }

\* Positions with lines of both colours.
TwoLineBoards ==
  { MkBoard(Row(CENTER, 1 .. 4), Row(CENTER + 2, 1 .. 4)),
    MkBoard(Row(CENTER, 1 .. 4), Row(CENTER + 2, {0, 1, 3, 4})),
    MkBoard(Row(CENTER, 1 .. 4), Row(CENTER + 2, 2 .. 4)),
    MkBoard(Row(CENTER, {0} \cup (2 .. 5)), Row(CENTER - 2, 1 .. 4)),
    MkBoard(Row(CENTER, 1 .. 4) \cup Row(CENTER - 2, 1 .. 4), Row(CENTER + 2, {2, 3})),
    MkBoard(Row(CENTER, 1 .. 4) \cup Line(2, 0 .. 4), Row(CENTER + 2, {1, 2})),
    MkBoard(Line(3, 1 .. 4), Line(4, {0, 1, 2, 4})) }

ThreatBoards ==
  LineBoards \cup TwoLineBoards \cup {SwapColours(b) : b \in TwoLineBoards}

\* Positions with no four: the searches run on them.
QuietBoards ==
  { MkBoard({<< 0, 0 >>, << 1, 1 >>}, {<< 0, 1 >>}) }

\* Positions the opening book covers.
BookBoards ==
  { EmptyBoard,
    MkBoard({<< CENTER, CENTER >>}, {}),
    MkBoard({<< CENTER - 1, CENTER >>}, {}),
    MkBoard({<< CENTER, CENTER >>}, {<< CENTER - 1, CENTER - 1 >>}),
    MkBoard({<< CENTER, CENTER >>}, {<< CENTER - 2, CENTER - 1 >>}) }

\* Two stones with the centre empty: the book has no answer.
BookMissBoards ==
  { MkBoard({<< 0, 0 >>}, {<< 0, 1 >>}) }

\* Boards without an empty cell.
FullBoards ==
  { [i \in Idx |-> [j \in Idx |-> BLACK]],
    [i \in Idx |-> [j \in Idx |-> IF (i + j) % 2 = 0 THEN BLACK ELSE WHITE]],
    [i \in Idx |-> [j \in Idx |-> IF (i + 2 * j) % 3 = 0 THEN WHITE ELSE BLACK]] }

\* Arrays that are no grid: fewer rows than BOARD_SIZE, and BOARD_SIZE rows
\* that are no arrays (every cell reads undefined).
ShortBoards ==
  { [i \in 0 .. (n - 1) |-> [j \in Idx |-> EMPTY]] : n \in {1, BOARD_SIZE - 1} }

RowsNotArrays == { [i \in Idx |-> [j \in Idx |-> UNDEF]] }

Difficulties == {"easy", "medium", "hard", "master"}

Input(arg, b, p, d) == [arg |-> arg, board |-> b, player |-> p, difficulty |-> d]

\* The calls of getMove explored.
Inputs ==
  {Input("array", b, p, d) :
     b \in ThreatBoards \cup FullBoards \cup ShortBoards \cup RowsNotArrays
            \cup {EmptyBoard, << >>},
     p \in Players, d \in Difficulties}
  \cup {Input(a, << >>, p, d) : a \in {"null", "notArray"}, p \in Players,
                               d \in Difficulties}
  \cup {Input("array", b, p, d) : b \in BookBoards, p \in Players,
                                 d \in {"easy", "master"}}
  \cup {Input("array", b, BLACK, d) : b \in QuietBoards,
                                     d \in {"easy", "medium", "hard"}}
  \cup {Input("array", b, WHITE, "master") : b \in QuietBoards}
  \cup {Input("array", b, BLACK, "master") : b \in BookMissBoards}

\* ------------------------------------------------- getState and loadState

\* Arrays and objects are kept in `heap` under their address (their index),
\* so that two references to one array can be told from two equal arrays.
\* A board is an array of row addresses, a move history an array of move
\* addresses, a win line an array of cell addresses (address 0 for null).

\* The most writes the explored runs make after the snapshot was taken.
MaxWrites == 2

\* The value a test writes to see whether two structures share memory.
Marker == 99

\* Allocates the objects `items` and then an array that refers to them.
Alloc(h, items) ==
  [heap |-> h \o items \o << [k \in 1 .. Len(items) |-> Len(h) + k] >>,
   at |-> Len(h) + Len(items) + 1]

\* The objects the array at address a refers to.
Items(h, a) == [k \in 1 .. Len(h[a]) |-> h[h[a][k]]]

\* cloneBoard copying the outer array only: [...this.board]
cloneBoardShallow(h, b) == [heap |-> Append(h, h[b]), at |-> Len(h) + 1]

\* this.board.map((row) => [...row])
cloneBoard(h, b) == Alloc(h, Items(h, b))

\* arr ? arr.map((m) => ({ ...m })) : null
CopyObjects(h, a) ==
  IF a = 0 THEN [heap |-> h, at |-> 0] ELSE Alloc(h, Items(h, a))

\* state.board.map((row) => [...row]) of loadState
CopyRows(h, b) == Alloc(h, Items(h, b))

\* An object with the scalar fields of `e` and the three references given.
WithRefs(e, b, m, w) ==
  [size |-> e.size, board |-> b, currentPlayer |-> e.currentPlayer,
   moveHistory |-> m, gameOver |-> e.gameOver, winner |-> e.winner,
   winLine |-> w]

\* The three copies of getState and of loadState, made one after another.
CopyLineThen(e, b, m, w) == [heap |-> w.heap, obj |-> WithRefs(e, b, m.at, w.at)]

CopyMovesThen(e, b, m) == CopyLineThen(e, b, m, CopyObjects(m.heap, e.winLine))

\* GameEngine.getState() of the engine object e: the heap it leaves and the
\* object it returns.
getState(h, e) ==
  CopyMovesThen(e, cloneBoard(h, e.board).at,
                CopyObjects(cloneBoard(h, e.board).heap, e.moveHistory))

\* GameEngine.loadState(state): the heap it leaves and the engine's fields.
loadState(h, st) ==
  CopyMovesThen(st, CopyRows(h, st.board).at,
                CopyObjects(CopyRows(h, st.board).heap, st.moveHistory))

\* What an engine or a snapshot holds, references followed.
View(h, e) ==
  [size |-> e.size, board |-> Items(h, e.board),
   currentPlayer |-> e.currentPlayer, moveHistory |-> Items(h, e.moveHistory),
   gameOver |-> e.gameOver, winner |-> e.winner,
   winLine |-> IF e.winLine = 0 THEN << >> ELSE Items(h, e.winLine)]

\* A move object and a cell object.
MoveObj(x, y, who, n) == [x |-> x, y |-> y, player |-> who, moveNumber |-> n]

CellObj(x, y) == [x |-> x, y |-> y]

\* Before any object exists.
NoObject ==
  [size |-> 0, board |-> 0, currentPlayer |-> 0, moveHistory |-> 0,
   gameOver |-> FALSE, winner |-> 0, winLine |-> 0]

NoCalls == [getState |-> FALSE, loadState |-> FALSE, toSnapshot |-> 0, toSource |-> 0]

\* No listing was asked for yet.
NoListing == [radius |-> -1, board |-> EmptyBoard, smart |-> << >>, candidates |-> << >>]

\* The snapshot variables while other calls are explored.
NoStore ==
  /\ heap = << >>
  /\ source = NoObject
  /\ snapshot = NoObject
  /\ restored = NoObject
  /\ original = NoObject
  /\ did = NoCalls

\* What the engines of the explored runs hold: a fresh engine, an engine two
\* moves into a game, and an engine whose game black won with a line of five.
FreshContent ==
  [board |-> EmptyBoard, currentPlayer |-> 1, moves |-> << >>,
   gameOver |-> FALSE, winner |-> 0, line |-> << >>]

OpenedContent ==
  [board |-> MkBoard({<<CENTER, CENTER>>}, {<<CENTER, CENTER + 1>>}),
   currentPlayer |-> 1,
   moves |-> << MoveObj(CENTER, CENTER, 1, 1), MoveObj(CENTER + 1, CENTER, 2, 2) >>,
   gameOver |-> FALSE, winner |-> 0, line |-> << >>]

WonContent ==
  [board |-> MkBoard({<<CENTER, 3 + k>> : k \in 0 .. 4},
                     {<<CENTER + 1, 3 + k>> : k \in 0 .. 3}),
   currentPlayer |-> 1,
   moves |-> [n \in 1 .. 9 |->
                IF n % 2 = 1 THEN MoveObj(3 + n \div 2, CENTER, 1, n)
                ELSE MoveObj(2 + n \div 2, CENTER + 1, 2, n)],
   gameOver |-> TRUE, winner |-> 1,
   line |-> [k \in 1 .. 5 |-> CellObj(2 + k, CENTER)]]

SourceContents == {FreshContent, OpenedContent, WonContent}

\* The constructor's allocations, with the fields set to the content c.
NewEngineLine(c, b, m, w) ==
  [heap |-> w.heap,
   obj |-> [size |-> BOARD_SIZE, board |-> b, currentPlayer |-> c.currentPlayer,
            moveHistory |-> m.at, gameOver |-> c.gameOver, winner |-> c.winner,
            winLine |-> w.at]]

NewEngineMoves(c, b, m) ==
  NewEngineLine(c, b, m, IF Len(c.line) = 0 THEN [heap |-> m.heap, at |-> 0]
                         ELSE Alloc(m.heap, c.line))

NewEngineRows(h, c, rows) ==
  NewEngineMoves(c, Alloc(h, rows).at, Alloc(Alloc(h, rows).heap, c.moves))

NewEngine(h, c) == NewEngineRows(h, c, [i \in 1 .. BOARD_SIZE |-> c.board[i - 1]])

\* The writes the explored runs make through the references of the object e.
\* obj.board[r][c] = Marker
WriteCell(h, e, r, c) == [h EXCEPT ![h[e.board][r + 1]][c] = Marker]

\* obj.moveHistory[k - 1].x = Marker
WriteMove(h, e, k) == [h EXCEPT ![h[e.moveHistory][k]].x = Marker]

\* obj.moveHistory.push({...})
PushMove(h, e) ==
  [Append(h, MoveObj(0, 0, 1, Len(h[e.moveHistory]) + 1))
     EXCEPT ![e.moveHistory] = Append(@, Len(h) + 1)]

\* obj.moveHistory.pop()
PopMove(h, e) == [h EXCEPT ![e.moveHistory] = SubSeq(@, 1, Len(@) - 1)]

\* obj.winLine[k - 1].x = Marker
WriteLine(h, e, k) == [h EXCEPT ![h[e.winLine][k]].x = Marker]

\* board[y][x] = player and moveHistory.push(...) of placeStone
PlaceWrites(h, e, x, y) ==
  PushMove([h EXCEPT ![h[e.board][y + 1]][x] = e.currentPlayer], e)

WrittenCells == {<<CENTER, CENTER>>, <<0, 0>>}

\* The heaps one write through the object e can leave.
Written(h, e) ==
  {WriteCell(h, e, c[1], c[2]) : c \in WrittenCells}
  \cup {PlaceWrites(h, e, c[2], c[1]) : c \in WrittenCells}
  \cup {WriteMove(h, e, k) : k \in 1 .. Len(h[e.moveHistory])}
  \cup {PushMove(h, e)}
  \cup (IF Len(h[e.moveHistory]) = 0 THEN {} ELSE {PopMove(h, e)})
  \cup (IF e.winLine = 0 THEN {}
        ELSE {WriteLine(h, e, k) : k \in 1 .. Len(h[e.winLine])})

\* const state = source.getState()
GetState ==
  /\ pc = "idle"
  /\ ~did.getState
  /\ \E r \in {getState(heap, source)} :
       /\ heap' = r.heap
       /\ snapshot' = r.obj
  /\ original' = View(heap, source)
  /\ did' = [did EXCEPT !.getState = TRUE]
  /\ UNCHANGED << source, restored >>
  /\ UNCHANGED outsideStore

\* restored.loadState(state); the snapshot is an object whose board is an
\* array, so the TypeError of line 244 is not thrown.
LoadState ==
  /\ pc = "idle"
  /\ did.getState
  /\ ~did.loadState
  /\ \E r \in {loadState(heap, snapshot)} :
       /\ heap' = r.heap
       /\ restored' = r.obj
  /\ did' = [did EXCEPT !.loadState = TRUE]
  /\ UNCHANGED << source, snapshot, original >>
  /\ UNCHANGED outsideStore

\* A write into the snapshot after it was loaded.
WriteSnapshot ==
  /\ pc = "idle"
  /\ did.loadState
  /\ did.toSnapshot + did.toSource < MaxWrites
  /\ heap' \in Written(heap, snapshot)
  /\ did' = [did EXCEPT !.toSnapshot = @ + 1]
  /\ UNCHANGED << source, snapshot, restored, original >>
  /\ UNCHANGED outsideStore

\* The source engine goes on after its snapshot was taken.
WriteSource ==
  /\ pc = "idle"
  /\ did.getState
  /\ did.toSnapshot + did.toSource < MaxWrites
  /\ heap' \in Written(heap, source)
  /\ did' = [did EXCEPT !.toSource = @ + 1]
  /\ UNCHANGED << source, snapshot, restored, original >>
  /\ UNCHANGED outsideStore

\* ------------------------------------------------------- CampaignManager

\* { bomb, shield, double } of a level, absent counts read as 0.
Powers(b, s, d) == [bomb |-> b, shield |-> s, double |-> d]

Level(ai, obstacles, powers, thresholds) ==
  [ai |-> ai, obstacles |-> obstacles, powerStones |-> powers,
   starThresholds |-> thresholds]

\* this.levels; obstacles are << x, y >> with x the column.
levels ==
  << Level("easy", {}, Powers(0, 0, 0), << 30, 20, 15 >>),
     Level("easy", {}, Powers(1, 0, 0), << 25, 18, 12 >>),
     Level("medium", {<<3, 3>>, <<11, 11>>}, Powers(0, 1, 0), << 30, 22, 16 >>),
     Level("medium", {<<5, 5>>, <<9, 9>>}, Powers(0, 0, 1), << 28, 20, 14 >>),
     Level("medium", {<<2, 7>>, <<4, 4>>, <<7, 2>>, <<7, 12>>, <<10, 10>>, <<12, 7>>},
           Powers(1, 1, 0), << 35, 25, 18 >>),
     Level("hard", {<<3, 7>>, <<7, 3>>, <<7, 11>>, <<11, 7>>}, Powers(1, 1, 1),
           << 40, 30, 22 >>),
     Level("hard", {}, Powers(0, 0, 0), << 35, 25, 18 >>),
     Level("hard", {<<3, 3>>, <<4, 3>>, <<5, 3>>, <<9, 11>>, <<10, 11>>, <<11, 11>>,
                    <<6, 6>>, <<7, 6>>, <<7, 8>>, <<8, 8>>},
           Powers(2, 1, 0), << 45, 35, 25 >>),
     Level("master", {<<4, 4>>, <<4, 10>>, <<10, 4>>, <<10, 10>>}, Powers(1, 0, 1),
           << 50, 38, 28 >>),
     Level("master", {<<2, 2>>, <<2, 12>>, <<7, 7>>, <<12, 2>>, <<12, 12>>},
           Powers(2, 1, 1), << 55, 40, 30 >>) >>

\* The constructor without saved progress.
NewCampaign ==
  [currentLevel |-> 0, stars |-> [i \in 1 .. Len(levels) |-> 0], unlockedLevel |-> 0]

\* The constructor when loadProgress finds levels 0 .. unlocked - 1 completed
\* with one star each.
SavedCampaign(unlocked) ==
  [currentLevel |-> 0,
   stars |-> [i \in 1 .. Len(levels) |-> IF i <= unlocked THEN 1 ELSE 0],
   unlockedLevel |-> unlocked]

\* CampaignManager.startLevel(index): the manager afterwards, and whether a
\* config was returned.
startLevel(c, index) ==
  IF index < 0 \/ index >= Len(levels) \/ index > c.unlockedLevel
  THEN [campaign |-> c, config |-> FALSE]
  ELSE [campaign |-> [c EXCEPT !.currentLevel = index], config |-> TRUE]

\* let earnedStars = 1; if (moveCount <= two) earnedStars = 2;
\* if (moveCount <= three) earnedStars = 3;
earnedStars(thresholds, n) ==
  IF n <= thresholds[3] THEN 3
  ELSE IF n <= thresholds[2] THEN 2 ELSE 1

\* Completed with the new result stored without the comparison.
CompletedOverwriting(c, earned) ==
  [campaign |->
     [c EXCEPT !.stars[c.currentLevel + 1] = earned,
               !.unlockedLevel =
                 IF c.currentLevel + 1 < Len(levels) /\ c.currentLevel + 1 > @
                 THEN c.currentLevel + 1 ELSE @],
   stars |-> earned,
   unlockNext |-> /\ c.currentLevel + 1 < Len(levels)
                  /\ c.currentLevel + 1 > c.unlockedLevel]

\* The rest of completeLevel for a won level: keep the best result, unlock
\* the next level.
Completed(c, earned) ==
  [campaign |->
     [c EXCEPT !.stars[c.currentLevel + 1] = Max(@, earned),
               !.unlockedLevel =
                 IF c.currentLevel + 1 < Len(levels) /\ c.currentLevel + 1 > @
                 THEN c.currentLevel + 1 ELSE @],
   stars |-> earned,
   unlockNext |-> /\ c.currentLevel + 1 < Len(levels)
                  /\ c.currentLevel + 1 > c.unlockedLevel]

\* CampaignManager.completeLevel(won, moveCount)
completeLevel(c, won, n) ==
  IF ~won THEN [campaign |-> c, stars |-> 0, unlockNext |-> FALSE]
  ELSE Completed(c, earnedStars(levels[c.currentLevel + 1].starThresholds, n))

NoCompletion ==
  [called |-> FALSE, level |-> 0, won |-> FALSE, moveCount |-> 0, stars |-> 0,
   unlockNext |-> FALSE, completions |-> 0]

\* What `completion` records of a call of completeLevel.
CompletionOf(c, won, n, r) ==
  [called |-> TRUE, level |-> c.currentLevel, won |-> won, moveCount |-> n,
   stars |-> r.stars, unlockNext |-> r.unlockNext,
   completions |-> completion.completions + 1]

\* The campaign variables while other calls are explored.
NoCampaign ==
  /\ campaign = NewCampaign
  /\ completion = NoCompletion

\* The most moves a completed level is reported with, and the most calls of
\* completeLevel in one run.
MaxMoveCount == 56
MaxCompletions == 1

\* campaign.startLevel(index)
StartLevel ==
  /\ pc = "idle"
  /\ \E index \in -1 .. Len(levels) :
       campaign' = startLevel(campaign, index).campaign
  /\ UNCHANGED completion
  /\ UNCHANGED outsideCampaign

\* campaign.completeLevel(won, moveCount)
CompleteLevel ==
  /\ pc = "idle"
  /\ completion.completions < MaxCompletions
  /\ \E won \in BOOLEAN, n \in 0 .. MaxMoveCount :
       \E r \in {completeLevel(campaign, won, n)} :
         /\ campaign' = r.campaign
         /\ completion' = CompletionOf(campaign, won, n, r)
  /\ UNCHANGED outsideCampaign

\* ------------------------------------------------- application controller

HUMAN == 1
AI_PLAYER == 2

\* The board value of an obstacle and of a shielded cell.
OBSTACLE == -1

\* Events handled in one explored run, and restarts among them.
MaxEvents == 6
MaxRestarts == 1

NoEvent == [kind |-> "none", x |-> -1, y |-> -1, events |-> 0, restarts |-> 0]

NoDouble ==
  [on |-> FALSE, before |-> 0, after |-> 0, human |-> << >>, ai |-> 0, over |-> FALSE]

\* The application before a game is started.
NoApp ==
  /\ gameActive = FALSE
  /\ aiThinking = FALSE
  /\ moveCount = 0
  /\ powerStones = Powers(0, 0, 0)
  /\ activePower = "null"
  /\ doublePending = FALSE
  /\ timers = 0
  /\ clicked = NoEvent
  /\ doubled = NoDouble
  /\ mode = "null"

\* game._engine as one value, and the assignment of such a value.
Engine ==
  [board |-> gameBoard, currentPlayer |-> currentPlayer,
   moveHistory |-> moveHistory, gameOver |-> gameOver, winner |-> winner,
   winLine |-> winLine]

SetEngine(e) ==
  /\ gameBoard' = e.board
  /\ currentPlayer' = e.currentPlayer
  /\ moveHistory' = e.moveHistory
  /\ gameOver' = e.gameOver
  /\ winner' = e.winner
  /\ winLine' = e.winLine
  /\ UNCHANGED << ALLOW_OVERLINE, placed, prior >>

\* GameEngine.reset()
ResetEngine ==
  [board |-> EmptyBoard, currentPlayer |-> 1, moveHistory |-> << >>,
   gameOver |-> FALSE, winner |-> 0, winLine |-> << >>]

\* placeStone after the stone was written: win, draw or switch of player.
StonePlaced(e, x, y, b1, won, full) ==
  [color |-> e.currentPlayer,
   engine |->
     [board |-> b1,
      currentPlayer |-> IF won.won \/ full THEN e.currentPlayer
                        ELSE IF e.currentPlayer = 1 THEN 2 ELSE 1,
      moveHistory |-> Append(e.moveHistory,
                             [x |-> x, y |-> y, player |-> e.currentPlayer,
                              moveNumber |-> Len(e.moveHistory) + 1]),
      gameOver |-> won.won \/ full,
      winner |-> IF won.won THEN e.currentPlayer ELSE IF full THEN 3 ELSE e.winner,
      winLine |-> IF won.won THEN won.line ELSE e.winLine]]

StoneWritten(e, x, y, b1) ==
  StonePlaced(e, x, y, b1, GameCheckWin(b1, x, y, e.currentPlayer, ALLOW_OVERLINE),
              GameBoardFull(b1))

\* Game.makeMove(x, y) on the engine e: the engine afterwards and the colour
\* returned (1 black, 2 white, 0 for null).
makeMove(e, x, y) ==
  IF e.gameOver \/ ~isValidMove(e.board, x, y)
  THEN [color |-> 0, engine |-> e]
  ELSE StoneWritten(e, x, y, [e.board EXCEPT ![y][x] = e.currentPlayer])

\* applyObstacles for the level config
applyObstacles(b, obstacles) ==
  [y \in Idx |-> [x \in Idx |-> IF << x, y >> \in obstacles THEN OBSTACLE ELSE b[y][x]]]

\* handleGameOver in campaign mode: campaign.completeLevel(humanWon, moveCount)
\* when the game is over after the handler's move, nothing otherwise.  (In
\* free play the scores are counted; with mode null nothing is done.)
handleGameOver(e, n) ==
  IF e.gameOver /\ mode = "campaign"
  THEN \E r \in {completeLevel(campaign, e.winner = 1, n)} :
         /\ campaign' = r.campaign
         /\ completion' = CompletionOf(campaign, e.winner = 1, n, r)
  ELSE UNCHANGED << campaign, completion >>

\* The cells the explored clicks name, as << x, y >>, and the cells the
\* explored replies of the AI prefer.
ClickCells == {<< CENTER, CENTER >>, << CENTER + 1, CENTER >>, << CENTER + 1, CENTER + 1 >>,
               << CENTER, CENTER + 1 >>}

AICells == {<< CENTER + 1, CENTER + 1 >>, << CENTER, CENTER + 1 >>}

\* The cells ai.getMove may return, as << col, row >>: an empty cell (one of
\* AICells while one is empty, else the first empty cell), and the centre
\* cell on a board without an empty cell.
AIChoices(b) ==
  IF \E c \in AICells : b[c[2]][c[1]] = 0
  THEN {c \in AICells : b[c[2]][c[1]] = 0}
  ELSE IF \E y \in Idx, x \in Idx : b[y][x] = 0
  THEN {CHOOSE c \in Idx \X Idx :
          /\ b[c[2]][c[1]] = 0
          /\ \A d \in Idx \X Idx :
               b[d[2]][d[1]] = 0 => c[2] * BOARD_SIZE + c[1] <= d[2] * BOARD_SIZE + d[1]}
  ELSE {<< CENTER, CENTER >>}

Event(kind, x, y) ==
  [kind |-> kind, x |-> x, y |-> y, events |-> clicked.events + 1,
   restarts |-> clicked.restarts]

\* `doubled` after a stone of colour `color` was placed by a click.
HumanStone(color, over) ==
  IF doubled.on /\ Len(doubled.human) < 2
  THEN [doubled EXCEPT !.human = Append(@, color), !.over = over]
  ELSE doubled

\* `doubled` after a stone was placed by the callback of triggerAITurn.
AIStone(color) ==
  IF doubled.on /\ Len(doubled.human) = 1 /\ ~doubled.over /\ color # 0
  THEN [doubled EXCEPT !.ai = @ + 1]
  ELSE doubled

\* onBoardClick with activePower === 'bomb'
BombClick(x, y) ==
  /\ gameBoard[y][x] = AI_PLAYER
  /\ gameBoard' = [gameBoard EXCEPT ![y][x] = 0]
  /\ powerStones' = [powerStones EXCEPT !.bomb = @ - 1]
  /\ activePower' = "null"
  /\ clicked' = Event("bomb", x, y)
  /\ UNCHANGED << currentPlayer, moveHistory, gameOver, winner, winLine,
                  ALLOW_OVERLINE, placed, prior >>
  /\ UNCHANGED << gameActive, aiThinking, moveCount, doublePending, timers, doubled >>
  /\ UNCHANGED campaignVars

\* onBoardClick with activePower === 'shield'
ShieldClick(x, y) ==
  /\ gameBoard[y][x] = 0
  /\ gameBoard' = [gameBoard EXCEPT ![y][x] = OBSTACLE]
  /\ powerStones' = [powerStones EXCEPT !.shield = @ - 1]
  /\ activePower' = "null"
  /\ clicked' = Event("shield", x, y)
  /\ UNCHANGED << currentPlayer, moveHistory, gameOver, winner, winLine,
                  ALLOW_OVERLINE, placed, prior >>
  /\ UNCHANGED << gameActive, aiThinking, moveCount, doublePending, timers, doubled >>
  /\ UNCHANGED campaignVars

\* onBoardClick, normal stone placement, after makeMove returned m: the win
\* check, the second stone of Double, or the AI's turn.
AfterStone(x, y, m) ==
  /\ m.color # 0
  /\ moveCount' = moveCount + 1
  /\ clicked' = Event("place", x, y)
  /\ doubled' = HumanStone(m.color, m.engine.gameOver)
  /\ UNCHANGED << powerStones, activePower >>
  /\ handleGameOver(m.engine, moveCount + 1)
  /\ IF m.engine.gameOver
     THEN /\ SetEngine(m.engine)
          /\ gameActive' = FALSE
          /\ UNCHANGED << aiThinking, doublePending, timers >>
     ELSE IF doublePending
     THEN /\ SetEngine([m.engine EXCEPT !.currentPlayer = HUMAN])
          /\ doublePending' = FALSE
          /\ UNCHANGED << gameActive, aiThinking, timers >>
     ELSE /\ SetEngine(m.engine)
          /\ aiThinking' = TRUE
          /\ timers' = timers + 1
          /\ UNCHANGED << gameActive, doublePending >>

\* onBoardClick(e) for a click on the cell (x, y); a click that the handler
\* returns from without an assignment leaves every variable as it is.
onBoardClick(x, y) ==
  /\ gameActive /\ ~aiThinking /\ ~gameOver
  /\ currentPlayer = HUMAN \/ doublePending
  /\ IF activePower = "bomb" THEN BombClick(x, y)
     ELSE IF activePower = "shield" THEN ShieldClick(x, y)
     ELSE /\ gameBoard[y][x] = 0
          /\ AfterStone(x, y, makeMove(Engine, x, y))

OnBoardClick ==
  /\ pc = "idle"
  /\ clicked.events < MaxEvents
  /\ \E c \in ClickCells : onBoardClick(c[1], c[2])
  /\ UNCHANGED << aiVars, storeVars, listed, unitVars, trainVars, mode >>

\* The callback that triggerAITurn hands to setTimeout, for the move c that
\* ai.getMove returned and the result m of game.makeMove.
AIReplied(c, m) ==
  /\ SetEngine(m.engine)
  /\ aiThinking' = FALSE
  /\ clicked' = Event("ai", c[1], c[2])
  /\ doubled' = AIStone(m.color)
  /\ handleGameOver(m.engine, moveCount)
  /\ gameActive' = IF m.engine.gameOver THEN FALSE ELSE gameActive
  /\ UNCHANGED << moveCount, powerStones, activePower, doublePending >>

AITurn ==
  /\ pc = "idle"
  /\ timers > 0
  /\ clicked.events < MaxEvents
  /\ timers' = timers - 1
  /\ \E c \in AIChoices(gameBoard) : AIReplied(c, makeMove(Engine, c[1], c[2]))
  /\ UNCHANGED << aiVars, storeVars, listed, unitVars, trainVars, mode >>

\* togglePower(type), behind the guard of the power buttons' listener.
togglePower(type) ==
  /\ gameActive /\ ~aiThinking /\ ~gameOver
  /\ clicked' = Event("toggle", -1, -1)
  /\ IF activePower = type
     THEN /\ activePower' = "null"
          /\ UNCHANGED << powerStones, doublePending, doubled >>
     ELSE /\ powerStones[type] > 0
          /\ IF type = "double"
             THEN /\ powerStones' = [powerStones EXCEPT !.double = @ - 1]
                  /\ doublePending' = TRUE
                  /\ activePower' = "null"
                  /\ doubled' = [NoDouble EXCEPT !.on = TRUE,
                                                 !.before = powerStones.double,
                                                 !.after = powerStones.double - 1]
             ELSE /\ activePower' = type
                  /\ UNCHANGED << powerStones, doublePending, doubled >>
  /\ UNCHANGED << gameActive, aiThinking, moveCount, timers >>
  /\ UNCHANGED << gameVars, campaignVars >>

\* The power buttons are on the panel that startFreePlay hides.
TogglePower ==
  /\ pc = "idle"
  /\ mode = "campaign"
  /\ clicked.events < MaxEvents
  /\ \E type \in {"bomb", "shield", "double"} : togglePower(type)
  /\ UNCHANGED << aiVars, storeVars, listed, unitVars, trainVars, mode >>

\* startCampaignLevel(index) for an unlocked level: the application and the
\* engine afterwards.  The callbacks that setTimeout holds stay.
LevelStarted(index) ==
  /\ startLevel(campaign, index).config
  /\ campaign' = startLevel(campaign, index).campaign
  /\ moveCount' = 0
  /\ powerStones' = levels[index + 1].powerStones
  /\ activePower' = "null"
  /\ doublePending' = FALSE
  /\ SetEngine([ResetEngine EXCEPT
                  !.board = applyObstacles(EmptyBoard, levels[index + 1].obstacles)])
  /\ gameActive' = TRUE
  /\ aiThinking' = FALSE

\* startFreePlay(difficulty) after the assignment of mode: resetGame().  The
\* power stone state and moveCount are not assigned.
FreePlayStarted ==
  /\ SetEngine(ResetEngine)
  /\ gameActive' = TRUE
  /\ aiThinking' = FALSE
  /\ UNCHANGED << moveCount, powerStones, activePower, doublePending, campaign >>

\* handleNewGame: startFreePlay(freePlayDifficulty) in free play,
\* startCampaignLevel(campaign.currentLevel) in campaign mode.
HandleNewGame ==
  /\ pc = "idle"
  /\ clicked.events < MaxEvents
  /\ clicked.restarts < MaxRestarts
  /\ IF mode = "free" THEN FreePlayStarted
     ELSE mode = "campaign" /\ LevelStarted(campaign.currentLevel)
  /\ clicked' = [Event("newGame", -1, -1) EXCEPT !.restarts = @ + 1]
  /\ doubled' = NoDouble
  /\ UNCHANGED << timers, completion >>
  /\ UNCHANGED << aiVars, storeVars, listed, unitVars, trainVars, mode >>

\* ------------------------------------------------------------ TrainingMode

\* this.games after loadGames: recorded games, each move as
\* << col, row, player >>.
games ==
  << [id |-> 1, moves |-> << << 7, 7, 1 >>, << 8, 8, 2 >>, << 7, 8, 1 >> >>],
     [id |-> 2, moves |-> << << 7, 7, 1 >> >>] >>

\* The ids passed to selectGame (3 is the id of no game) and the cells
\* passed to checkGuess.
GameIds == {1, 2, 3}
GuessCells == {<< 7, 7 >>, << 8, 8 >>}

\* Calls made on the object in one explored run (the ticks of the interval
\* are not among them).
MaxReplayCalls == 5

\* The object after its constructor.
NewTraining ==
  [currentGame |-> 0, currentStep |-> 0, autoTimer |-> 0, quizMode |-> FALSE,
   quizAnswered |-> FALSE]

NoReplay == [op |-> "none", ok |-> FALSE, calls |-> 0, started |-> 0]

NoTraining ==
  /\ training = NewTraining
  /\ intervals = {}
  /\ replay = NoReplay

\* this.currentGame.moves
MovesOf(t) == games[t.currentGame].moves

\* this.games.find(g => g.id === gameId) || null
FindGame(gameId) ==
  IF \E k \in 1 .. Len(games) : games[k].id = gameId
  THEN CHOOSE k \in 1 .. Len(games) :
         /\ games[k].id = gameId
         /\ \A j \in 1 .. k - 1 : games[j].id # gameId
  ELSE 0

Called(op, ok) ==
  [op |-> op, ok |-> ok, calls |-> replay.calls + 1, started |-> replay.started]

\* stopAuto() that forgets the timer without clearing the interval.
stopAutoForgetting(t, live) ==
  [training |-> [t EXCEPT !.autoTimer = 0], intervals |-> live]

\* stopAuto(): the object and the live intervals afterwards.
stopAuto(t, live) ==
  [training |-> [t EXCEPT !.autoTimer = 0],
   intervals |-> IF t.autoTimer # 0 THEN live \ {t.autoTimer} ELSE live]

\* nextMove() without the test against the number of moves.
nextMoveUnbounded(t) ==
  IF t.currentGame = 0 THEN [training |-> t, ok |-> FALSE]
  ELSE IF t.quizMode /\ ~t.quizAnswered THEN [training |-> t, ok |-> FALSE]
  ELSE [training |-> [t EXCEPT !.currentStep = @ + 1, !.quizAnswered = FALSE],
        ok |-> TRUE]

\* nextMove(): the object afterwards and the value returned.
nextMove(t) ==
  IF t.currentGame = 0 THEN [training |-> t, ok |-> FALSE]
  ELSE IF t.currentStep >= Len(MovesOf(t)) THEN [training |-> t, ok |-> FALSE]
  ELSE IF t.quizMode /\ ~t.quizAnswered THEN [training |-> t, ok |-> FALSE]
  ELSE [training |-> [t EXCEPT !.currentStep = @ + 1, !.quizAnswered = FALSE],
        ok |-> TRUE]

\* prevMove()
prevMove(t) ==
  IF t.currentGame = 0 \/ t.currentStep <= 0 THEN [training |-> t, ok |-> FALSE]
  ELSE [training |-> [t EXCEPT !.currentStep = @ - 1, !.quizAnswered = FALSE],
        ok |-> TRUE]

\* checkGuess(col, row): the object afterwards; ok: an object was returned
\* (not null); correct: its field.
checkGuess(t, col, row) ==
  IF ~t.quizMode \/ t.currentGame = 0 THEN [training |-> t, ok |-> FALSE, correct |-> FALSE]
  ELSE IF t.quizAnswered THEN [training |-> t, ok |-> FALSE, correct |-> FALSE]
  ELSE IF t.currentStep >= Len(MovesOf(t)) THEN [training |-> t, ok |-> FALSE, correct |-> FALSE]
  ELSE [training |-> [t EXCEPT !.quizAnswered = TRUE, !.currentStep = @ + 1],
        ok |-> TRUE,
        correct |-> /\ col = MovesOf(t)[t.currentStep + 1][1]
                    /\ row = MovesOf(t)[t.currentStep + 1][2]]

\* selectGame(gameId)
SelectGame ==
  /\ UNCHANGED outsideTraining
  /\ replay.calls < MaxReplayCalls
  /\ \E gameId \in GameIds :
       \E r \in {stopAuto([training EXCEPT !.currentGame = FindGame(gameId),
                                             !.currentStep = 0,
                                             !.quizMode = FALSE,
                                             !.quizAnswered = FALSE], intervals)} :
         /\ training' = r.training
         /\ intervals' = r.intervals
         /\ replay' = Called("selectGame", FindGame(gameId) # 0)

\* goToStart()
GoToStart ==
  /\ UNCHANGED outsideTraining
  /\ replay.calls < MaxReplayCalls
  /\ training' = [training EXCEPT !.currentStep = 0, !.quizAnswered = FALSE]
  /\ replay' = Called("goToStart", TRUE)
  /\ UNCHANGED intervals

\* goToEnd()
GoToEnd ==
  /\ UNCHANGED outsideTraining
  /\ replay.calls < MaxReplayCalls
  /\ training' = IF training.currentGame = 0 THEN training
                 ELSE [training EXCEPT !.currentStep = Len(MovesOf(training))]
  /\ replay' = Called("goToEnd", training.currentGame # 0)
  /\ UNCHANGED intervals

\* nextMove(), called from the page
NextMove ==
  /\ UNCHANGED outsideTraining
  /\ replay.calls < MaxReplayCalls
  /\ \E r \in {nextMove(training)} :
       /\ training' = r.training
       /\ replay' = Called("nextMove", r.ok)
  /\ UNCHANGED intervals

\* prevMove()
PrevMove ==
  /\ UNCHANGED outsideTraining
  /\ replay.calls < MaxReplayCalls
  /\ \E r \in {prevMove(training)} :
       /\ training' = r.training
       /\ replay' = Called("prevMove", r.ok)
  /\ UNCHANGED intervals

\* startAuto(): stopAuto(), then setInterval, whose id is kept in autoTimer.
StartedAuto(r, id) ==
  /\ training' = [r.training EXCEPT !.autoTimer = id]
  /\ intervals' = r.intervals \cup {id}

StartAuto ==
  /\ UNCHANGED outsideTraining
  /\ replay.calls < MaxReplayCalls
  /\ StartedAuto(stopAuto(training, intervals), replay.started + 1)
  /\ replay' = [Called("startAuto", TRUE) EXCEPT !.started = @ + 1]

\* toggleAuto()
ToggleAuto ==
  /\ UNCHANGED outsideTraining
  /\ replay.calls < MaxReplayCalls
  /\ IF training.autoTimer # 0
     THEN /\ \E r \in {stopAuto(training, intervals)} :
               /\ training' = r.training
               /\ intervals' = r.intervals
          /\ replay' = Called("toggleAuto", FALSE)
     ELSE /\ StartedAuto(stopAuto(training, intervals), replay.started + 1)
          /\ replay' = [Called("toggleAuto", TRUE) EXCEPT !.started = @ + 1]

\* toggleQuiz()
ToggleQuiz ==
  /\ UNCHANGED outsideTraining
  /\ replay.calls < MaxReplayCalls
  /\ \E r \in {stopAuto([training EXCEPT !.quizMode = ~@, !.quizAnswered = FALSE],
                         intervals)} :
       /\ training' = r.training
       /\ intervals' = r.intervals
  /\ replay' = Called("toggleQuiz", ~training.quizMode)

\* checkGuess(col, row)
CheckGuess ==
  /\ UNCHANGED outsideTraining
  /\ replay.calls < MaxReplayCalls
  /\ \E c \in GuessCells :
       \E r \in {checkGuess(training, c[1], c[2])} :
         /\ training' = r.training
         /\ replay' = Called("checkGuess", r.ok)
  /\ UNCHANGED intervals

\* destroy()
Destroy ==
  /\ UNCHANGED outsideTraining
  /\ replay.calls < MaxReplayCalls
  /\ \E r \in {stopAuto([training EXCEPT !.currentGame = 0], intervals)} :
       /\ training' = r.training
       /\ intervals' = r.intervals
  /\ replay' = Called("destroy", TRUE)

\* A tick of a live interval: the callback that startAuto gave setInterval.
Ticked(r) ==
  IF r.ok
  THEN /\ training' = r.training
       /\ UNCHANGED intervals
  ELSE \E s \in {stopAuto(r.training, intervals)} :
         /\ training' = s.training
         /\ intervals' = s.intervals

Tick ==
  /\ UNCHANGED outsideTraining
  /\ intervals # {}
  /\ \E r \in {nextMove(training)} :
       /\ Ticked(r)
       /\ replay' = [replay EXCEPT !.op = "tick", !.ok = r.ok]

\* showModeSelect(), the listener of the Menu button: the game area is
\* hidden.  The callbacks that setTimeout holds stay.
ShowModeSelect ==
  /\ pc = "idle"
  /\ mode # "null"
  /\ clicked.events < MaxEvents
  /\ clicked.restarts < MaxRestarts
  /\ gameActive' = FALSE
  /\ mode' = "null"
  /\ clicked' = [Event("menu", -1, -1) EXCEPT !.restarts = @ + 1]
  /\ UNCHANGED << aiThinking, moveCount, powerStones, activePower, doublePending,
                  timers, doubled >>
  /\ UNCHANGED << aiVars, gameVars, storeVars, listed, campaignVars, unitVars, trainVars >>

\* startFreePlay(difficulty), from the difficulty overlay or the Play Again
\* button of the game-over overlay.
StartFreePlay ==
  /\ pc = "idle"
  /\ mode = "null" \/ (mode = "free" /\ ~gameActive)
  /\ clicked.events < MaxEvents
  /\ mode' = "free"
  /\ FreePlayStarted
  /\ clicked' = Event("freePlay", -1, -1)
  /\ UNCHANGED << timers, doubled, completion >>
  /\ UNCHANGED << aiVars, storeVars, listed, unitVars, trainVars >>

\* startCampaignLevel(index), from the level grid or the buttons of the
\* level-complete overlay.
StartCampaignLevel ==
  /\ pc = "idle"
  /\ mode = "null" \/ (mode = "campaign" /\ ~gameActive)
  /\ clicked.events < MaxEvents
  /\ \E index \in 0 .. campaign.unlockedLevel : LevelStarted(index)
  /\ mode' = "campaign"
  /\ clicked' = Event("level", -1, -1)
  /\ doubled' = NoDouble
  /\ UNCHANGED << timers, completion >>
  /\ UNCHANGED << aiVars, storeVars, listed, unitVars, trainVars >>

\* The engine object while getMove is explored: a fresh GameEngine.
\* No function was applied, setDifficulty was not called, the engine made
\* no search call.
NoEvaluation == [fn |-> "none", out |-> << >>]
NoSetting == [level |-> "none", before |-> "none", count |-> 0]
NoSearchCalls == [made |-> 0, before |-> FreshEngine]

NoUnit ==
  /\ evaluated = NoEvaluation
  /\ asked = NoSetting
  /\ calls = NoSearchCalls
  /\ deadlineAt = NodeBudget

FreshGame ==
  /\ gameBoard = EmptyBoard
  /\ currentPlayer = 1
  /\ moveHistory = << >>
  /\ gameOver = FALSE
  /\ winner = 0
  /\ winLine = << >>
  /\ ALLOW_OVERLINE = FALSE
  /\ placed = NoCall
  /\ prior = Snapshot(FALSE)

\* No call of getMove is under way.
NoSearch ==
  /\ boardArg = "array"
  /\ board = EmptyBoard
  /\ board0 = board
  /\ player = BLACK
  /\ difficulty = "medium"
  /\ engine = FreshEngine
  /\ clock = 0
  /\ visited = 0
  /\ root = NoRoot
  /\ stack = << >>
  /\ completed = << >>
  /\ result = NoResult

\* One call of getMove.
Init ==
  /\ pc = "call"
  /\ \E in \in Inputs :
       /\ boardArg = in.arg
       /\ board = in.board
       /\ player = in.player
       /\ difficulty = in.difficulty
  /\ board0 = board
  /\ engine = FreshEngine
  /\ clock = 0
  /\ visited = 0
  /\ root = NoRoot
  /\ stack = << >>
  /\ completed = << >>
  /\ result = NoResult
  /\ FreshGame
  /\ NoStore
  /\ listed = NoListing
  /\ NoUnit
  /\ NoApp
  /\ NoTraining
  /\ NoCampaign

Next == GetMove \/ Descend \/ Return \/ RootEnd

Spec == Init /\ [][Next]_vars

\* One call of getMove at Master on a position where no shortcut fires and
\* the opening book has no answer: the deepening loop runs.
InitIterative == Init /\ difficulty = "master" /\ board \in QuietBoards

SpecIterative == InitIterative /\ [][Next]_vars

\* Positions the engine starts from (the board is written directly, as the
\* engine's tests and loadState do): a line of the mover with a cell or two
\* missing, and a board with one empty cell.
GameShapes == { 0 .. 3, {0, 1, 2, 3, 5}, {0, 1, 3, 4}, {0, 1, 2, 3, 5, 6}, 1 .. 4 }

GameBoards ==
  { MkBoard(Line(d, sh), Row(CENTER + 2, {1, 3})) : d \in 1 .. 4, sh \in GameShapes }
  \cup { [i \in Idx |-> [j \in Idx |->
            IF << i, j >> = << CENTER, 4 >> THEN EMPTY
            ELSE IF (i + 2 * j) % 3 = 0 THEN WHITE ELSE BLACK]],
         \* pairs of stones, alternating from row to row: no run above 2
         [i \in Idx |-> [j \in Idx |->
            IF << i, j >> = << CENTER, 4 >> THEN EMPTY
            ELSE IF ((j \div 2) + i) % 2 = 0 THEN BLACK ELSE WHITE]] }

InitGame ==
  /\ pc = "idle"
  /\ NoSearch
  /\ gameBoard \in GameBoards \cup {SwapColours(b) : b \in GameBoards}
  /\ currentPlayer \in {1, 2}
  /\ moveHistory = << >>
  /\ gameOver = FALSE
  /\ winner = 0
  /\ winLine = << >>
  /\ ALLOW_OVERLINE \in BOOLEAN
  /\ placed = NoCall
  /\ prior = Snapshot(FALSE)
  /\ NoStore
  /\ listed = NoListing
  /\ NoUnit
  /\ NoApp
  /\ NoTraining
  /\ NoCampaign

NextGame == PlaceStone \/ undoMove

SpecGame == InitGame /\ [][NextGame]_vars

\* The radii the listings are asked for: the default 2, and 1 and 3.
Radii == 1 .. 3

\* Boards the listings start from: no stone, one stone in a corner, at an
\* edge and in the centre, two stones whose neighbourhoods overlap, two far
\* apart, a line of four with two stones below it, and a board with one
\* empty cell.
ListBoards ==
  { EmptyBoard,
    MkBoard({<<0, 0>>}, {}),
    MkBoard({}, {<<BOARD_SIZE - 1, CENTER>>}),
    MkBoard({<<CENTER, CENTER>>}, {}),
    MkBoard({<<CENTER, CENTER>>}, {<<CENTER + 1, CENTER + 2>>}),
    MkBoard({<<1, 12>>}, {<<5, 2>>}),
    MkBoard(Line(1, 0 .. 3), Row(CENTER + 2, {1, 3})),
    [i \in Idx |-> [j \in Idx |->
       IF << i, j >> = << CENTER, 4 >> THEN EMPTY
       ELSE IF ((j \div 2) + i) % 2 = 0 THEN BLACK ELSE WHITE]] }

\* getSmartMoves(r) on the engine, and generateCandidates(board, r) on the
\* same board.
ListMoves ==
  /\ pc = "idle"
  /\ \E r \in Radii :
       listed' = [radius |-> r, board |-> gameBoard,
                  smart |-> getSmartMoves(gameBoard, r),
                  candidates |-> generateCandidates(gameBoard, r)]
  /\ UNCHANGED outsideListing

InitMoves ==
  /\ pc = "idle"
  /\ NoSearch
  /\ gameBoard \in ListBoards
  /\ currentPlayer = 1
  /\ moveHistory = << >>
  /\ gameOver = FALSE
  /\ winner = 0
  /\ winLine = << >>
  /\ ALLOW_OVERLINE = FALSE
  /\ placed = NoCall
  /\ prior = Snapshot(FALSE)
  /\ NoStore
  /\ listed = NoListing
  /\ NoUnit
  /\ NoApp
  /\ NoTraining
  /\ NoCampaign

\* Stones are placed, then listings are asked for.
NextMoves == (listed = NoListing /\ PlaceStone) \/ ListMoves

SpecMoves == InitMoves /\ [][NextMoves]_vars

\* An engine with some content, and a second, fresh engine to load into.
InitState ==
  /\ pc = "idle"
  /\ NoSearch
  /\ FreshGame
  /\ \E c \in SourceContents :
       \E s \in {NewEngine(<< >>, c)} :
         \E d \in {NewEngine(s.heap, FreshContent)} :
           /\ heap = d.heap
           /\ source = s.obj
           /\ restored = d.obj
           /\ original = View(d.heap, s.obj)
  /\ snapshot = NoObject
  /\ did = NoCalls
  /\ listed = NoListing
  /\ NoUnit
  /\ NoApp
  /\ NoTraining
  /\ NoCampaign

NextState == GetState \/ LoadState \/ WriteSnapshot \/ WriteSource

SpecState == InitState /\ [][NextState]_vars

InitCampaign ==
  /\ pc = "idle"
  /\ NoSearch
  /\ FreshGame
  /\ NoStore
  /\ listed = NoListing
  /\ NoUnit
  /\ NoApp
  /\ NoTraining
  /\ campaign \in {NewCampaign} \cup {SavedCampaign(u) : u \in 1 .. Len(levels) - 1}
  /\ completion = NoCompletion

NextCampaign == StartLevel \/ CompleteLevel

SpecCampaign == InitCampaign /\ [][NextCampaign]_vars

\* The levels the explored games are played on (0-based): one with a bomb,
\* one with a Double, one with all three power stones.
AppLevels == {1, 3, 5}

\* A game on the level with the easy AI in which the human has an open four
\* after four stones each.
OpenFourGame ==
  [board |-> MkBoard({<< CENTER, x >> : x \in 3 .. 6},
                     {<< CENTER + 1, 3 >>, << CENTER + 1, 4 >>, << CENTER + 1, 5 >>,
                      << CENTER + 2, 6 >>}),
   currentPlayer |-> HUMAN,
   moveHistory |-> [n \in 1 .. 8 |->
                      IF n % 2 = 1
                      THEN [x |-> 3 + n \div 2, y |-> CENTER, player |-> 1, moveNumber |-> n]
                      ELSE [x |-> 2 + n \div 2, y |-> CENTER + (IF n = 8 THEN 2 ELSE 1),
                            player |-> 2, moveNumber |-> n]],
   gameOver |-> FALSE, winner |-> 0, winLine |-> << >>]

\* The application after startCampaignLevel(index), and the game above under
\* way on the level with one bomb.
InitApp ==
  /\ pc = "idle"
  /\ NoSearch
  /\ NoStore
  /\ listed = NoListing
  /\ NoUnit
  /\ ALLOW_OVERLINE = FALSE
  /\ placed = NoCall
  /\ \E index \in AppLevels :
       /\ campaign = [SavedCampaign(index) EXCEPT !.currentLevel = index]
       /\ powerStones = levels[index + 1].powerStones
       /\ \E e \in {[ResetEngine EXCEPT
                       !.board = applyObstacles(EmptyBoard, levels[index + 1].obstacles)]}
                   \cup (IF index = 1 THEN {OpenFourGame} ELSE {}) :
            /\ gameBoard = e.board
            /\ currentPlayer = e.currentPlayer
            /\ moveHistory = e.moveHistory
            /\ gameOver = e.gameOver
            /\ winner = e.winner
            /\ winLine = e.winLine
            /\ moveCount = Len(e.moveHistory) \div 2
  /\ prior = Snapshot(FALSE)
  /\ completion = NoCompletion
  /\ gameActive = TRUE
  /\ aiThinking = FALSE
  /\ activePower = "null"
  /\ doublePending = FALSE
  /\ timers = 0
  /\ clicked = NoEvent
  /\ doubled = NoDouble
  /\ mode = "campaign"
  /\ NoTraining

NextApp == OnBoardClick \/ AITurn \/ TogglePower \/ HandleNewGame

SpecApp == InitApp /\ [][NextApp]_vars

\* The application with its menu: free play and campaign levels in turn.
NextPlay ==
  \/ OnBoardClick
  \/ AITurn
  \/ TogglePower
  \/ HandleNewGame
  \/ ShowModeSelect
  \/ StartFreePlay
  \/ StartCampaignLevel

SpecPlay == InitApp /\ [][NextPlay]_vars

\* ------------------------------------------------- a game placed and undone

\* The longest move history of the explored games, and the cells their
\* calls of placeStone name, as << x, y >>: the two ends of black's four in
\* OpenFourGame, two cells more, and a cell off the board.
MaxHistory == 11
HistoryCells ==
  {<< 2, CENTER >>, << 7, CENTER >>, << 8, CENTER >>, << 8, CENTER + 3 >>,
   << -1, 0 >>}

PlaceStoneInGame ==
  /\ pc = "idle"
  /\ \E c \in HistoryCells :
       /\ \/ Len(moveHistory) < MaxHistory
          \/ gameOver
          \/ ~isValidMove(gameBoard, c[1], c[2])
       /\ placeStone(c[1], c[2])
  /\ UNCHANGED outsideGame

\* GameEngine.reset()
Reset ==
  /\ pc = "idle"
  /\ gameBoard' = ResetEngine.board
  /\ currentPlayer' = ResetEngine.currentPlayer
  /\ moveHistory' = ResetEngine.moveHistory
  /\ gameOver' = ResetEngine.gameOver
  /\ winner' = ResetEngine.winner
  /\ winLine' = ResetEngine.winLine
  /\ placed' = [NoCall EXCEPT !.op = "reset"]
  /\ prior' = [prior EXCEPT !.fresh = FALSE]
  /\ UNCHANGED ALLOW_OVERLINE
  /\ UNCHANGED outsideGame

\* An engine after its constructor, and one on which the eight stones of
\* OpenFourGame were placed.
InitHistory ==
  /\ pc = "idle"
  /\ NoSearch
  /\ \E e \in {ResetEngine, OpenFourGame} :
       /\ gameBoard = e.board
       /\ currentPlayer = e.currentPlayer
       /\ moveHistory = e.moveHistory
       /\ gameOver = e.gameOver
       /\ winner = e.winner
       /\ winLine = e.winLine
  /\ ALLOW_OVERLINE \in BOOLEAN
  /\ placed = NoCall
  /\ prior = Snapshot(FALSE)
  /\ NoStore
  /\ listed = NoListing
  /\ NoUnit
  /\ NoApp
  /\ NoTraining
  /\ NoCampaign

NextHistory == PlaceStoneInGame \/ undoMove \/ Reset

SpecHistory == InitHistory /\ [][NextHistory]_vars

\* ------------------------------------------------- scoreMoveQuick applied

\* The run of `who` through the cell (x, y) along (dx, dy) as scoreMoveQuick
\* counts it: the stones next to the cell on both sides plus one, and the
\* number of ends at which the walk stopped on an empty cell.
RunThrough(b, x, y, dx, dy, who) ==
  [total |-> (WalkStop(b, x, y, dx, dy, who) - 1)
             + (WalkStop(b, x, y, -dx, -dy, who) - 1) + 1,
   open |-> (IF WalkOpen(b, x, y, dx, dy, WalkStop(b, x, y, dx, dy, who))
             THEN 1 ELSE 0)
            + (IF WalkOpen(b, x, y, -dx, -dy, WalkStop(b, x, y, -dx, -dy, who))
               THEN 1 ELSE 0)]

\* 10 * (what the axis adds for blocking): the axis' score less the
\* mover's own term.
BlockingPart(b, x, y, dx, dy, mover, own) ==
  AxisScore(b, x, y, dx, dy, mover) - 10 * OwnTerm(own.total, own.open)

\* Boards with one to four white stones in a row, each end of the line
\* empty or taken by black, and the cells scoreMoveQuick is applied to.
QuickBoards ==
  { MkBoard(blk, Row(CENTER, 3 .. 2 + k)) :
      k \in 1 .. 4, blk \in SUBSET {<< CENTER, 2 >>, << CENTER, 8 >>} }

QuickCells == Row(CENTER, 4 .. 7) \cup {<< CENTER + 1, 4 >>}

\* scoreMoveQuick(board, x, y, player) for an empty cell, with the run of
\* the opponent through the cell and the blocking part of every axis.
ScoreMoveQuick ==
  /\ pc = "idle"
  /\ evaluated = NoEvaluation
  /\ \E c \in QuickCells :
       /\ board[c[1]][c[2]] = EMPTY
       /\ evaluated' =
            [fn |-> "scoreMoveQuick",
             out |-> [x |-> c[1], y |-> c[2],
                      score |-> scoreMoveQuick(board, c[1], c[2], player),
                      axes |-> [d \in 1 .. 4 |->
                        [run |-> RunThrough(board, c[1], c[2], DIRECTIONS[d][1],
                                            DIRECTIONS[d][2], opponent(player)),
                         block |-> BlockingPart(board, c[1], c[2], DIRECTIONS[d][1],
                                                DIRECTIONS[d][2], player,
                                                RunThrough(board, c[1], c[2],
                                                           DIRECTIONS[d][1],
                                                           DIRECTIONS[d][2], player))]]]]
  /\ UNCHANGED << aiVars, asked, calls, deadlineAt >>
  /\ UNCHANGED << gameVars, storeVars, listed, appVars, campaignVars, trainVars >>

InitQuick ==
  /\ pc = "idle"
  /\ boardArg = "array"
  /\ board \in QuickBoards
  /\ board0 = board
  /\ player \in Players
  /\ difficulty = "medium"
  /\ engine = FreshEngine
  /\ clock = 0
  /\ visited = 0
  /\ root = NoRoot
  /\ stack = << >>
  /\ completed = << >>
  /\ result = NoResult
  /\ FreshGame
  /\ NoStore
  /\ listed = NoListing
  /\ NoUnit
  /\ NoApp
  /\ NoTraining
  /\ NoCampaign

NextQuick == ScoreMoveQuick

SpecQuick == InitQuick /\ [][NextQuick]_vars

\* ------------------------------------------------- a campaign played through

\* The move counts levels are completed with (around the thresholds of the
\* first levels), and the most calls of completeLevel in one run.
ProgressMoveCounts == {10, 19, 40}
MaxProgressCompletions == 3

\* campaign.completeLevel(won, moveCount), called again and again.
CompleteLevelAgain ==
  /\ pc = "idle"
  /\ completion.completions < MaxProgressCompletions
  /\ \E won \in BOOLEAN, n \in ProgressMoveCounts :
       \E r \in {completeLevel(campaign, won, n)} :
         /\ campaign' = r.campaign
         /\ completion' = CompletionOf(campaign, won, n, r)
  /\ UNCHANGED outsideCampaign

\* A new campaign, and one saved with all levels but the last unlocked.
InitProgress ==
  /\ pc = "idle"
  /\ NoSearch
  /\ FreshGame
  /\ NoStore
  /\ listed = NoListing
  /\ NoUnit
  /\ NoApp
  /\ NoTraining
  /\ campaign \in {NewCampaign, SavedCampaign(Len(levels) - 2)}
  /\ completion = NoCompletion

NextProgress == StartLevel \/ CompleteLevelAgain

SpecProgress == InitProgress /\ [][NextProgress]_vars

\* ------------------------------------------------- a replay in training mode

InitTraining ==
  /\ pc = "idle"
  /\ NoSearch
  /\ FreshGame
  /\ NoStore
  /\ listed = NoListing
  /\ NoUnit
  /\ NoApp
  /\ NoTraining
  /\ NoCampaign

NextTraining ==
  \/ SelectGame
  \/ GoToStart
  \/ GoToEnd
  \/ NextMove
  \/ PrevMove
  \/ StartAuto
  \/ ToggleAuto
  \/ ToggleQuiz
  \/ CheckGuess
  \/ Destroy
  \/ Tick

SpecTraining == InitTraining /\ [][NextTraining]_vars

\* The interval fires again and again while it is not cleared.
SpecAutoPlay ==
  InitTraining /\ [][NextTraining]_vars /\ WF_vars(Tick)

\* ------------------------------------------------- single functions applied

\* Boards evaluateBoard is applied to: stones of both colours near the
\* centre, near a corner and on an edge, alone and in runs of two.
EvalBlack == {<< 1, 1 >>, << 0, 5 >>, << 7, 9 >>}
EvalWhite == {<< CENTER, CENTER >>, << CENTER, CENTER + 1 >>, << 13, 13 >>}

EvalBoards == { MkBoard(blk, wht) : blk \in SUBSET EvalBlack, wht \in SUBSET EvalWhite }

\* evaluateBoard(board, player) and evaluateBoard(board, opponent(player)),
\* with the pattern totals of the two players.
EvaluateBoard ==
  /\ pc = "idle"
  /\ evaluated = NoEvaluation
  /\ evaluated' =
       [fn |-> "evaluateBoard",
        out |-> [mine |-> evaluateBoard(board, player),
                 theirs |-> evaluateBoard(board, opponent(player)),
                 myPatterns |-> PatternTotal(board, player),
                 theirPatterns |-> PatternTotal(board, opponent(player)),
                 myBonus |-> CenterBonus(board, player),
                 theirBonus |-> CenterBonus(board, opponent(player))]]
  /\ UNCHANGED << aiVars, asked, calls, deadlineAt >>
  /\ UNCHANGED << gameVars, storeVars, listed, appVars, campaignVars, trainVars >>

\* ------------------------------------------------- searches run to the end

\* Boards with a few empty cells on which nobody can make five: no
\* shortcut fires and a search visits every position it does not prune.
EndgameBoards ==
  { WithHoles(DrawnBoard, {<< 3, 3 >>, << 3, 4 >>, << 4, 4 >>, << 7, 7 >>, << 11, 4 >>}),
    WithHoles(DrawnBoard, {<< 6, 6 >>, << 6, 7 >>, << 7, 6 >>, << 8, 8 >>}) }

\* One call of getMove at Medium, Hard or Master on such a board.
InitEndgame ==
  /\ pc = "call"
  /\ boardArg = "array"
  /\ board \in EndgameBoards
  /\ board0 = board
  /\ player \in Players
  /\ difficulty \in {"medium", "hard", "master"}
  /\ engine = FreshEngine
  /\ clock = 0
  /\ visited = 0
  /\ root = NoRoot
  /\ stack = << >>
  /\ completed = << >>
  /\ result = NoResult
  /\ FreshGame
  /\ NoStore
  /\ listed = NoListing
  /\ NoUnit
  /\ NoApp
  /\ NoTraining
  /\ NoCampaign

SpecEndgame == InitEndgame /\ [][Next]_vars

\* -------------------------------------------------- the deadline of a search

\* The calls of alphabeta before which the time limit can run out: the
\* first one (the limit ran out during the scans), and later ones.
DeadlineVisits == {1, NodeBudget \div 2, NodeBudget}

\* Descend with a clock that agrees with deadlineAt: a time check finds the
\* limit passed exactly from the call deadlineAt on.
DescendTimed ==
  /\ Descend
  /\ ChecksTime(engine) => (clock' = 2 <=> visited' >= deadlineAt)

\* RootEnd with a clock that agrees with deadlineAt, where it reads it.
RootEndTimed ==
  /\ RootEnd
  /\ (root.iter /\ root.bestScore < ValueScale * WIN_SCORE)
       => (clock' = 2 <=> visited >= deadlineAt)

\* One call of getMove at Hard or Master on a position where the search
\* runs, with the time limit running out before one of the calls above.
InitDeadline ==
  /\ pc = "call"
  /\ boardArg = "array"
  /\ board \in QuietBoards
  /\ board0 = board
  /\ \E d \in {"hard", "master"} :
       /\ difficulty = d
       /\ player = IF d = "hard" THEN BLACK ELSE WHITE
  /\ engine = FreshEngine
  /\ clock = 0
  /\ visited = 0
  /\ root = NoRoot
  /\ stack = << >>
  /\ completed = << >>
  /\ result = NoResult
  /\ FreshGame
  /\ NoStore
  /\ listed = NoListing
  /\ evaluated = NoEvaluation
  /\ asked = NoSetting
  /\ calls = NoSearchCalls
  /\ deadlineAt \in DeadlineVisits
  /\ NoApp
  /\ NoTraining
  /\ NoCampaign

NextDeadline == GetMove \/ DescendTimed \/ Return \/ RootEndTimed

SpecDeadline == InitDeadline /\ [][NextDeadline]_vars

\* ------------------------------------------------- wins inside the search

\* A board with four empty cells where whoever fills the two cells (7, 0)
\* and (8, 0) has five in column 0: black with the stones above them,
\* white with the stones below.  Nobody wins or has to block at once.
TacticalBoard ==
  WithHoles(Place(Place(DrawnBoard, 6, 0, BLACK), 9, 0, WHITE),
            {<< 7, 0 >>, << 8, 0 >>, << 3, 7 >>, << 12, 9 >>})

\* One call of getMove at Hard or Master on that board.
InitTactical ==
  /\ pc = "call"
  /\ boardArg = "array"
  /\ board = TacticalBoard
  /\ board0 = board
  /\ player \in Players
  /\ difficulty \in {"hard", "master"}
  /\ engine = FreshEngine
  /\ clock = 0
  /\ visited = 0
  /\ root = NoRoot
  /\ stack = << >>
  /\ completed = << >>
  /\ result = NoResult
  /\ FreshGame
  /\ NoStore
  /\ listed = NoListing
  /\ NoUnit
  /\ NoApp
  /\ NoTraining
  /\ NoCampaign

SpecTactical == InitTactical /\ [][Next]_vars

\* ------------------------------------------------ more than 20 root moves

\* Two stones next to each other in the middle of the board: 28 candidates,
\* nobody wins or has to block at once.
WideBoards == { MkBoard({<< CENTER, CENTER >>}, {<< CENTER, CENTER + 1 >>}) }

\* One call of getMove at Medium on such a board.
InitWide ==
  /\ pc = "call"
  /\ boardArg = "array"
  /\ board \in WideBoards
  /\ board0 = board
  /\ player \in Players
  /\ difficulty = "medium"
  /\ engine = FreshEngine
  /\ clock = 0
  /\ visited = 0
  /\ root = NoRoot
  /\ stack = << >>
  /\ completed = << >>
  /\ result = NoResult
  /\ FreshGame
  /\ NoStore
  /\ listed = NoListing
  /\ NoUnit
  /\ NoApp
  /\ NoTraining
  /\ NoCampaign

SpecWide == InitWide /\ [][Next]_vars

\* ---------------------------------------------- an engine used repeatedly

\* The fields after the first five statements of findBestMove.
ResetSearch(eng, timeLimitMs, advancedEval) ==
  [nodesSearched |-> 0, timeLimit |-> timeLimitMs, timedOut |-> FALSE,
   useAdvancedEval |-> advancedEval]

\* The fields after the first four statements of findBestMoveIterative.
ResetIterative(eng, timeLimitMs, advancedEval) ==
  [eng EXCEPT !.timeLimit = timeLimitMs, !.timedOut = FALSE,
              !.useAdvancedEval = advancedEval]

\* The fields after the first two statements of the deepening loop.
ResetDepth(eng) == [eng EXCEPT !.nodesSearched = 0, !.timedOut = FALSE]

\* The fields a search call leaves when it reaches its first call of
\* alphabeta or, if it does not get there (done), its return.
EnterSearch(eng, iterative, done, timeLimitMs, advancedEval) ==
  IF ~iterative THEN ResetSearch(eng, timeLimitMs, advancedEval)
  ELSE IF done THEN ResetIterative(eng, timeLimitMs, advancedEval)
  ELSE ResetDepth(ResetIterative(eng, timeLimitMs, advancedEval))

MaxSearchCalls == 2

\* Positions the engine is called on: one where the search runs, one where
\* the mover wins at once, one without an empty cell.
EngineBoards ==
  { WithHoles(DrawnBoard, {<< 3, 3 >>, << 7, 7 >>, << 11, 4 >>}),
    MkBoard(Row(CENTER, 1 .. 4), Row(CENTER + 2, 1 .. 4)),
    DrawnBoard }

\* findBestMove (with the arguments mediumMove passes) or
\* findBestMoveIterative (with those masterMove passes) is called on the
\* engine, which may have searched before; the call runs to its first call
\* of alphabeta or to its return.
CallSearch ==
  /\ pc \in {"idle", "done"}
  /\ calls.made < MaxSearchCalls
  /\ \E d \in {"medium", "master"}, b \in EngineBoards, p \in Players :
       \E e \in {IF d = "master" THEN findBestMoveIterative(b, p)
                  ELSE findBestMove(b, p)} :
         /\ difficulty' = d
         /\ player' = p
         /\ board0' = b
         /\ board' = e.board
         /\ engine' = EnterSearch(engine, d = "master", e.done,
                                  SearchTimeLimit(d), d = "master")
         /\ calls' = [made |-> calls.made + 1, before |-> engine]
         /\ IF e.done
            THEN /\ result' = Returned(e.move, e.via)
                 /\ pc' = "done"
                 /\ root' = NoRoot
            ELSE /\ result' = NoResult
                 /\ pc' = "search"
                 /\ root' = StartRoot(d = "master", e.moves, FirstDepth(d),
                                      LastDepth(d), 0)
  /\ clock' = 0
  /\ visited' = 0
  /\ completed' = << >>
  /\ UNCHANGED << boardArg, stack >>
  /\ UNCHANGED << evaluated, asked, deadlineAt >>
  /\ UNCHANGED << gameVars, storeVars, listed, appVars, campaignVars, trainVars >>

\* new MinimaxEngine(): no call made yet.
InitEngine ==
  /\ pc = "idle"
  /\ NoSearch
  /\ FreshGame
  /\ NoStore
  /\ listed = NoListing
  /\ NoUnit
  /\ NoApp
  /\ NoTraining
  /\ NoCampaign

NextEngine == CallSearch \/ Descend \/ Return \/ RootEnd

SpecEngine == InitEngine /\ [][NextEngine]_vars

\* ------------------------------------------------------------ setDifficulty

\* setDifficulty without the test of the level.
setDifficultyAny(level, stored) == level

\* this.difficulty after setDifficulty(level), given what it held.
setDifficulty(level, stored) ==
  IF level \in {"easy", "medium", "hard", "master"} THEN level ELSE stored

\* The values passed as level: the four names, and values that are none of
\* them (other strings, undefined).
Levels == {"easy", "medium", "hard", "master", "expert", "EASY", "undefined"}

MaxSettings == 2

SetDifficulty ==
  /\ pc = "call"
  /\ asked.count < MaxSettings
  /\ \E level \in Levels :
       /\ difficulty' = setDifficulty(level, difficulty)
       /\ asked' = [level |-> level, before |-> difficulty,
                    count |-> asked.count + 1]
  /\ UNCHANGED << pc, boardArg, board, board0, player, engine, clock, visited,
                  root, stack, completed, result >>
  /\ UNCHANGED << evaluated, calls, deadlineAt >>
  /\ UNCHANGED << gameVars, storeVars, listed, appVars, campaignVars, trainVars >>

\* Positions getMove is called on after setDifficulty: the empty board, and
\* a board with two empty cells on which nobody can make five.
SettingBoards ==
  {EmptyBoard, WithHoles(DrawnBoard, {<< 3, 3 >>, << 7, 7 >>})}

\* A GomokuAI constructed with one of the four levels; setDifficulty is
\* called on it, then getMove.
InitDifficulty ==
  /\ pc = "call"
  /\ boardArg = "array"
  /\ board \in SettingBoards
  /\ board0 = board
  /\ player \in Players
  /\ difficulty \in Difficulties
  /\ engine = FreshEngine
  /\ clock = 0
  /\ visited = 0
  /\ root = NoRoot
  /\ stack = << >>
  /\ completed = << >>
  /\ result = NoResult
  /\ FreshGame
  /\ NoStore
  /\ listed = NoListing
  /\ NoUnit
  /\ NoApp
  /\ NoTraining
  /\ NoCampaign

NextDifficulty == SetDifficulty \/ GetMove \/ Descend \/ Return \/ RootEnd

SpecDifficulty == InitDifficulty /\ [][NextDifficulty]_vars

\* opponent(player), and opponent applied to what it returned.
Opponent ==
  /\ pc = "idle"
  /\ evaluated = NoEvaluation
  /\ evaluated' =
       [fn |-> "opponent",
        out |-> [of |-> opponent(player), back |-> opponent(opponent(player))]]
  /\ UNCHANGED << aiVars, asked, calls, deadlineAt >>
  /\ UNCHANGED << gameVars, storeVars, listed, appVars, campaignVars, trainVars >>

\* A function of ai.js is about to be applied to a board and a player.
InitEval ==
  /\ pc = "idle"
  /\ boardArg = "array"
  /\ board \in EvalBoards
  /\ board0 = board
  /\ player \in Players
  /\ difficulty = "medium"
  /\ engine = FreshEngine
  /\ clock = 0
  /\ visited = 0
  /\ root = NoRoot
  /\ stack = << >>
  /\ completed = << >>
  /\ result = NoResult
  /\ FreshGame
  /\ NoStore
  /\ listed = NoListing
  /\ NoUnit
  /\ NoApp
  /\ NoTraining
  /\ NoCampaign

NextEval == EvaluateBoard \/ Opponent

SpecEval == InitEval /\ [][NextEval]_vars

\* ------------------------------------------------------------------ claims

\* The argument is a BOARD_SIZE x BOARD_SIZE grid over {empty, black, white}.
IsGrid(b) ==
  /\ DOMAIN b = Idx
  /\ \A i \in Idx, j \in Idx : b[i][j] \in {EMPTY, BLACK, WHITE}

HasEmptyCell(b) == \E i \in Idx, j \in Idx : b[i][j] = EMPTY

\* getMove was called with a grid and has returned.
ReturnedOnGrid == pc = "done" /\ boardArg = "array" /\ IsGrid(board0)

\* How many cells of `who` follow (i, j) without a gap, stepping (dx, dy).
Ahead(b, i, j, dx, dy, who) ==
  CHOOSE n \in 0 .. BOARD_SIZE :
    /\ \A k \in 1 .. n : /\ inBounds(i + dx * k, j + dy * k)
                          /\ b[i + dx * k][j + dy * k] = who
    /\ ~(/\ inBounds(i + dx * (n + 1), j + dy * (n + 1))
         /\ b[i + dx * (n + 1)][j + dy * (n + 1)] = who)

\* The length of the maximal contiguous run of `who` through the cell
\* (i, j), itself of `who`, on axis d.
RunLength(b, i, j, d, who) ==
  1 + Ahead(b, i, j, DIRECTIONS[d][1], DIRECTIONS[d][2], who)
    + Ahead(b, i, j, -DIRECTIONS[d][1], -DIRECTIONS[d][2], who)

\* `who` has a maximal contiguous run whose length is in `lengths`.
HasRunOf(b, who, lengths) ==
  \E i \in Idx, j \in Idx, d \in 1 .. 4 :
    b[i][j] = who /\ RunLength(b, i, j, d, who) \in lengths

FiveOrMore == 5 .. BOARD_SIZE

\* Neither colour has five or more in a row: the game is not decided.
Undecided(b) ==
  ~HasRunOf(b, BLACK, FiveOrMore) /\ ~HasRunOf(b, WHITE, FiveOrMore)

\* The end cells of the open fours of `who`: four contiguous stones with
\* both adjacent cells on the board and empty.
OpenFourEnds(b, who) ==
  UNION { { << i - DIRECTIONS[d][1], j - DIRECTIONS[d][2] >>,
            << i + 4 * DIRECTIONS[d][1], j + 4 * DIRECTIONS[d][2] >> }
          : << i, j, d >> \in
              { t \in Idx \X Idx \X (1 .. 4) :
                  /\ \A k \in 0 .. 3 :
                       /\ inBounds(t[1] + DIRECTIONS[t[3]][1] * k,
                                   t[2] + DIRECTIONS[t[3]][2] * k)
                       /\ b[t[1] + DIRECTIONS[t[3]][1] * k]
                           [t[2] + DIRECTIONS[t[3]][2] * k] = who
                  /\ \A k \in {-1, 4} :
                       /\ inBounds(t[1] + DIRECTIONS[t[3]][1] * k,
                                   t[2] + DIRECTIONS[t[3]][2] * k)
                       /\ b[t[1] + DIRECTIONS[t[3]][1] * k]
                           [t[2] + DIRECTIONS[t[3]][2] * k] = EMPTY } }

HasOpenFour(b, who) == OpenFourEnds(b, who) # {}

\* A stone of `who` on the empty cell (i, j) lies on a run with a length in
\* `lengths`.
Completes(b, i, j, who, lengths) ==
  /\ inBounds(i, j)
  /\ b[i][j] = EMPTY
  /\ \E d \in 1 .. 4 : RunLength(Place(b, i, j, who), i, j, d, who) \in lengths

\* C1: at every difficulty, for every grid with an empty cell and either
\* player, getMove returns the coordinates of a cell on the board that was
\* empty when it was called - also when the search timed out and when the
\* opening book answered.
C1_ReturnsEmptyCell ==
  (ReturnedOnGrid /\ HasEmptyCell(board0))
    => /\ result.kind = "move"
       /\ inBounds(result.x, result.y)
       /\ board0[result.x][result.y] = EMPTY

\* A search that timed out has returned an empty cell.
C1_Witness ==
  /\ ReturnedOnGrid
  /\ result.via = "search"
  /\ engine.timedOut
  /\ board0[result.x][result.y] = EMPTY

\* The stones the search has on the board on top of the caller's position:
\* the root loop's current move once a call is active, and the current
\* move of every frame that has a frame above it.
PathStone(i, j) ==
  IF stack # << >> /\ root.moves[root.idx] = Move(i, j) THEN player
  ELSE IF \E k \in 1 .. (Len(stack) - 1) :
            stack[k].moves[stack[k].idx] = Move(i, j)
       THEN stack[CHOOSE k \in 1 .. (Len(stack) - 1) :
                    stack[k].moves[stack[k].idx] = Move(i, j)].cur
       ELSE EMPTY

\* C2: the board passed to findBestMove / findBestMoveIterative holds what
\* it held when the call was entered as soon as the call has returned, on
\* every exit path (a shortcut, a finished search, a timed-out search); while
\* the search runs, the only differences are the stones of the moves under
\* examination, each on a cell that was empty.
C2_BoardRestored ==
  (boardArg = "array" /\ IsGrid(board0) /\ difficulty # "easy")
    => /\ pc = "done" => board = board0
       /\ pc = "search" =>
            \A i \in Idx, j \in Idx :
              board[i][j] = IF PathStone(i, j) # EMPTY THEN PathStone(i, j)
                            ELSE board0[i][j]

\* A search that placed stones and timed out has returned, the board as it was.
C2_Witness ==
  /\ ReturnedOnGrid
  /\ difficulty # "easy"
  /\ result.via = "search"
  /\ engine.timedOut
  /\ visited > 0
  /\ board = board0

\* C8: when no shortcut fires, findBestMoveIterative returns the best move
\* of the last depth that finished without the timed-out flag; a depth that
\* timed out does not replace it; when no depth finished, it returns the
\* first root candidate.
C8_DeepestCompleted ==
  (pc = "done" /\ difficulty = "master" /\ result.via = "search")
    => Move(result.x, result.y) =
         IF completed = << >> THEN root.moves[1]
         ELSE completed[Len(completed)]

\* The last depth timed out after at least two depths had finished.
C8_Witness ==
  /\ pc = "done"
  /\ difficulty = "master"
  /\ result.via = "search"
  /\ engine.timedOut
  /\ Len(completed) >= 2
  /\ Move(result.x, result.y) = completed[Len(completed)]

\* C3: a stone placed by placeStone makes its mover the winner exactly
\* when, on one of the four axes, the maximal run through it has length
\* exactly 5 - or, with ALLOW_OVERLINE set, length 5 or more; a placement
\* that wins on no axis and does not fill the board leaves winner = 0 and
\* the game running (so a run of 6 or more alone does not win by default).
C3_ExactlyFiveWins ==
  (placed.op = "placeStone" /\ placed.valid)
    => /\ (winner = placed.player /\ gameOver /\ placed.winner = placed.player)
            <=> (\E d \in 1 .. 4 :
                   RunLength(gameBoard, placed.y, placed.x, d, placed.player)
                     \in (IF ALLOW_OVERLINE THEN FiveOrMore ELSE {5}))
       /\ (winner # placed.player /\ HasEmptyCell(gameBoard))
            => (winner = 0 /\ ~gameOver /\ placed.winner = 0)

\* A stone completed a run of six with the overline rule off: no winner.
C3_Witness ==
  /\ placed.op = "placeStone"
  /\ placed.valid
  /\ ~ALLOW_OVERLINE
  /\ \E d \in 1 .. 4 :
       RunLength(gameBoard, placed.y, placed.x, d, placed.player) >= 6
  /\ winner = 0
  /\ ~gameOver

\* C4 (as claimed): the AI's checkWin(board, player) is true exactly when
\* the player has a maximal contiguous run of exactly 5 on some axis, so it
\* is false when the player's only long run has length 6.
C4_CheckWinExactlyFive ==
  (boardArg = "array" /\ IsGrid(board))
    => \A p \in Players : checkWin(board, p) <=> HasRunOf(board, p, {5})

\* C5 (as claimed): at every difficulty, on a board that is not decided and
\* where the mover has an open four, getMove returns a cell that completes
\* five in a row (a run of exactly five) for the mover.
C5_OpenFourIsWon ==
  (ReturnedOnGrid /\ Undecided(board0) /\ HasOpenFour(board0, player))
    => /\ result.kind = "move"
       /\ Completes(board0, result.x, result.y, player, {5})

\* C6 (as claimed): a cell returned through the immediate-win shortcut of a
\* search driver, on a board that is not decided, wins under the rule the
\* GameEngine referees with: checkWin of the engine, overline off, after
\* placeStone(col = y, row = x).
C6_ShortcutWinIsEngineWin ==
  (ReturnedOnGrid /\ Undecided(board0) /\ result.via = "win")
    => GameCheckWin(Place(board0, result.x, result.y, player),
                    result.y, result.x, player, FALSE).won

\* C7 (as claimed): at Medium, Hard and Master, on a board where the
\* opponent has an open four, getMove returns an end cell of such a four.
C7_BlocksOpenFour ==
  (ReturnedOnGrid /\ difficulty # "easy"
     /\ HasOpenFour(board0, opponent(player)))
    => /\ result.kind = "move"
       /\ << result.x, result.y >> \in OpenFourEnds(board0, opponent(player))

\* The mover has a cell that gives the mover five or more in a row.
MoverCanWin(b, who) ==
  \E i \in Idx, j \in Idx :
    b[i][j] = EMPTY /\ HasRunOf(Place(b, i, j, who), who, FiveOrMore)

\* C7 (amended): at Medium, Hard and Master, on a board where the opponent
\* has an open four and the mover has no cell that gives the mover five or
\* more in a row, getMove returns an empty cell on which an opponent stone
\* would give the opponent five or more in a row.
C7_BlocksUnlessWinning ==
  (ReturnedOnGrid /\ difficulty # "easy"
     /\ HasOpenFour(board0, opponent(player))
     /\ ~MoverCanWin(board0, player))
    => /\ result.kind = "move"
       /\ result.via = "block"
       /\ board0[result.x][result.y] = EMPTY
       /\ HasRunOf(Place(board0, result.x, result.y, opponent(player)),
                   opponent(player), FiveOrMore)

\* The block shortcut returned an end cell of the opponent's open four.
C7_Witness ==
  /\ ReturnedOnGrid
  /\ difficulty = "hard"
  /\ Undecided(board0)
  /\ ~MoverCanWin(board0, player)
  /\ result.via = "block"
  /\ << result.x, result.y >> \in OpenFourEnds(board0, opponent(player))

\* C9 (as claimed): for a board that is null, no array, an empty array or
\* no BOARD_SIZE x BOARD_SIZE grid, getMove does not throw and returns the
\* centre cell.
C9_MalformedGivesCentre ==
  (pc = "done" /\ (boardArg # "array" \/ ~IsGrid(board0)))
    => /\ result.kind = "move"
       /\ Move(result.x, result.y) = CenterMove

\* C10: on a grid without an empty cell, getMove returns the centre cell at
\* every difficulty, does not throw, and leaves the board as it was.
C10_FullBoardGivesCentre ==
  (ReturnedOnGrid /\ ~HasEmptyCell(board0))
    => /\ result.kind = "move"
       /\ Move(result.x, result.y) = CenterMove
       /\ board = board0

\* Master returned the centre cell of a full board.
C10_Witness ==
  /\ ReturnedOnGrid
  /\ ~HasEmptyCell(board0)
  /\ difficulty = "master"
  /\ Move(result.x, result.y) = CenterMove
  /\ board = board0

\* The cells at the offsets (dx, dy) from the centre with |dx| and |dy| in
\* `steps` and |dx| + |dy| = `sum`.
AroundCentre(steps, sum) ==
  { Move(CENTER + dx, CENTER + dy) :
      << dx, dy >> \in { t \in (-2 .. 2) \X (-2 .. 2) :
                          /\ Abs(t[1]) \in steps /\ Abs(t[2]) \in steps
                          /\ Abs(t[1]) + Abs(t[2]) = sum } }

\* C11: Master's opening book answers as its table says, entries in order:
\* no stone -> centre; one stone on the centre -> an empty cell diagonally
\* adjacent to the centre; one stone elsewhere -> centre; two stones, one on
\* the centre -> an empty cell a knight's move from the centre.  In every
\* other position the result comes from findBestMoveIterative.  A book move
\* is an empty cell of the input board.
C11_BookAnswers ==
  (ReturnedOnGrid /\ difficulty = "master")
    => /\ result.kind = "move"
       /\ result.via = "book" => board0[result.x][result.y] = EMPTY
       /\ IF countStones(board0) = 0
          THEN result.via = "book" /\ Move(result.x, result.y) = CenterMove
          ELSE IF countStones(board0) = 1 /\ board0[CENTER][CENTER] # EMPTY
          THEN /\ result.via = "book"
               /\ Move(result.x, result.y) \in AroundCentre({1}, 2)
          ELSE IF countStones(board0) = 1
          THEN result.via = "book" /\ Move(result.x, result.y) = CenterMove
          ELSE IF countStones(board0) = 2 /\ board0[CENTER][CENTER] # EMPTY
          THEN /\ result.via = "book"
               /\ Move(result.x, result.y) \in AroundCentre({1, 2}, 3)
               /\ inBounds(result.x, result.y)
          ELSE result.via \in {"none", "win", "block", "search"}

\* The book answered with a knight's move although one of the eight knight's
\* cells holds a stone.
C11_Witness ==
  /\ ReturnedOnGrid
  /\ difficulty = "master"
  /\ countStones(board0) = 2
  /\ board0[CENTER][CENTER] # EMPTY
  /\ \E m \in AroundCentre({1, 2}, 3) : board0[m.x][m.y] # EMPTY
  /\ result.via = "book"
  /\ board0[result.x][result.y] = EMPTY

\* What a refused call leaves alone.
GameKept == UNCHANGED << gameBoard, currentPlayer, moveHistory, gameOver, winner >>

\* C12: placeStone on an occupied cell, on coordinates off the board, or
\* after the game is over answers valid = false with a reason and leaves
\* board, currentPlayer, moveHistory, gameOver and winner as they were; once
\* gameOver holds, no call of placeStone changes the state.
C12_RefusedLeavesState ==
  [][ placed'.op = "placeStone"
        => /\ (\/ gameOver
               \/ ~GameInBounds(placed'.x, placed'.y)
               \/ gameBoard[placed'.y][placed'.x] # 0)
              => ~placed'.valid
           /\ ~placed'.valid => (placed'.reason # "" /\ GameKept) ]_vars

\* A call after the game was won has been refused.
C12_Witness ==
  /\ placed.op = "placeStone"
  /\ ~placed.valid
  /\ placed.reason = "Game is already over"
  /\ gameOver
  /\ winner \in {1, 2}

\* The step leaves the engine's fields as the snapshot `p` has them.
RestoresTo(p) ==
  /\ gameBoard' = p.board
  /\ currentPlayer' = p.currentPlayer
  /\ moveHistory' = p.moveHistory
  /\ gameOver' = p.gameOver
  /\ winner' = p.winner

\* C13: undoMove undoes placeStone.  An accepted placeStone from a state
\* with the game running, followed by undoMove, leaves board, currentPlayer
\* and moveHistory as before the placement, with gameOver = false and
\* winner = 0 - also when the placement ended the game; undoMove on an empty
\* history returns null and changes nothing.
C13_UndoInvertsPlace ==
  [][ placed'.op = "undoMove"
        => IF Len(moveHistory) = 0
           THEN ~placed'.valid /\ GameKept
           ELSE /\ placed'.valid
                /\ prior.fresh
                     => /\ RestoresTo(prior)
                        /\ ~gameOver' /\ winner' = 0 ]_vars

\* The engine's fields are those of the snapshot taken before the placement.
RestoredNow ==
  /\ gameBoard = prior.board
  /\ currentPlayer = prior.currentPlayer
  /\ moveHistory = prior.moveHistory

\* A placement that won the game has been undone.
C13_Witness ==
  /\ placed.op = "undoMove"
  /\ placed.valid
  /\ prior.undid \in {1, 2}
  /\ RestoredNow
  /\ ~gameOver
  /\ winner = 0
  /\ moveHistory = << >>

\* The stone just placed lies on a run that wins under the overline flag.
PlacedWins ==
  \E d \in 1 .. 4 :
    RunLength(gameBoard, placed.y, placed.x, d, placed.player)
      \in (IF ALLOW_OVERLINE THEN FiveOrMore ELSE {5})

\* C14: an accepted placeStone that fills the last empty cell without a
\* winning run ends the game as a draw (gameOver, winner = 3); with a winning
\* run it is that player's win, not a draw.  On a full board where nobody
\* has five in a row the AI's checkWin is false for both players and its
\* isBoardFull is true.
C14_LastCellDrawOrWin ==
  (placed.op = "placeStone" /\ placed.valid /\ ~HasEmptyCell(gameBoard))
    => /\ gameOver
       /\ winner = (IF PlacedWins THEN placed.player ELSE 3)
       /\ placed.winner = winner
       /\ Undecided(gameBoard)
            => /\ ~checkWin(gameBoard, BLACK)
               /\ ~checkWin(gameBoard, WHITE)
               /\ isBoardFull(gameBoard)

\* The last cell was filled, nobody has five in a row, the game is a draw.
C14_Witness ==
  /\ placed.op = "placeStone"
  /\ placed.valid
  /\ ~HasEmptyCell(gameBoard)
  /\ Undecided(gameBoard)
  /\ winner = 3
  /\ gameOver

\* The last cell was filled with a winning stone: a win, not a draw.
C14_WitnessWin ==
  /\ placed.op = "placeStone"
  /\ placed.valid
  /\ ~HasEmptyCell(gameBoard)
  /\ winner = placed.player

\* The steps (dx, dy) from a cell of a line to the next: x ascending on the
\* horizontal and on both diagonals, y ascending on the vertical.
AxisSteps == { << 1, 0 >>, << 0, 1 >>, << 1, 1 >>, << 1, -1 >> }

\* C15: when placeStone reports a win, the winLine it returns has exactly 5
\* cells, consecutive along one axis, each holding the winner's stone, listed
\* from the negative end of the axis to the positive end.
C15_WinLineOrdered ==
  (placed.op = "placeStone" /\ placed.valid /\ placed.winner \in {1, 2})
    => /\ Len(placed.winLine) = 5
       /\ winLine = placed.winLine
       /\ \A k \in 1 .. 5 :
            /\ GameInBounds(placed.winLine[k].x, placed.winLine[k].y)
            /\ gameBoard[placed.winLine[k].y][placed.winLine[k].x] = placed.winner
       /\ \E st \in AxisSteps :
            \A k \in 1 .. 4 :
              /\ placed.winLine[k + 1].x = placed.winLine[k].x + st[1]
              /\ placed.winLine[k + 1].y = placed.winLine[k].y + st[2]

\* The winning stone filled a gap: it is the third cell of the line returned.
C15_Witness ==
  /\ placed.op = "placeStone"
  /\ placed.valid
  /\ placed.winner \in {1, 2}
  /\ Len(placed.winLine) = 5
  /\ placed.winLine[3] = [x |-> placed.x, y |-> placed.y]

\* C16: an engine that loads the snapshot returned by getState holds exactly
\* what the source engine held when getState was called (board, current
\* player, move history, game-over flag, winner, win line), and the three are
\* independent deep copies: writes into the snapshot or into the source after
\* that change neither the restored engine nor the other of the two.
C16_SnapshotRoundTrip ==
  /\ did.loadState => View(heap, restored) = original
  /\ (did.getState /\ did.toSnapshot = 0) => View(heap, snapshot) = original
  /\ did.toSource = 0 => View(heap, source) = original

\* A finished game with a win line was saved and loaded, then both the
\* snapshot and the source were written to, and the restored engine still
\* holds the saved game.
C16_Witness ==
  /\ did.loadState
  /\ did.toSnapshot = 1
  /\ did.toSource = 1
  /\ original.winner = 1
  /\ Len(original.winLine) = 5
  /\ View(heap, snapshot) # original
  /\ View(heap, source) # original
  /\ View(heap, restored) = original

\* The stones of b, as << row, column >>.
StoneCells(b) == {s \in Idx \X Idx : b[s[1]][s[2]] # EMPTY}

Chebyshev(c, s) == Max(Abs(c[1] - s[1]), Abs(c[2] - s[2]))

\* The empty cells of b within Chebyshev distance r of a stone.
NearStones(b, r) ==
  LET stones == StoneCells(b)
  IN  {c \in Idx \X Idx : /\ b[c[1]][c[2]] = EMPTY
                          /\ \E s \in stones : Chebyshev(c, s) <= r}

NoRepeats(list) == \A m, n \in 1 .. Len(list) : list[m] = list[n] => m = n

\* C17: generateCandidates(board, r) and getSmartMoves(r) each return,
\* without duplicates, exactly the empty cells within Chebyshev distance r
\* of a stone, and exactly the centre cell when the board has no stone; the
\* two return the same set of cells.  A candidate {x, y} of
\* generateCandidates is the cell board[x][y]; a move {x, y} of getSmartMoves
\* is the cell board[y][x].
C17_CandidatesNearStones ==
  listed.radius >= 0 =>
    /\ NoRepeats(listed.smart)
    /\ NoRepeats(listed.candidates)
    /\ {<< listed.smart[n].y, listed.smart[n].x >> : n \in 1 .. Len(listed.smart)}
         = {<< listed.candidates[n].x, listed.candidates[n].y >>
              : n \in 1 .. Len(listed.candidates)}
    /\ IF StoneCells(listed.board) = {}
       THEN /\ listed.smart = << [x |-> CENTER, y |-> CENTER] >>
            /\ listed.candidates = << CenterMove >>
       ELSE {<< listed.candidates[n].x, listed.candidates[n].y >>
               : n \in 1 .. Len(listed.candidates)}
              = NearStones(listed.board, listed.radius)

\* A listing for two stones whose neighbourhoods overlap, one of them in
\* the other's neighbourhood, and not symmetric in rows and columns.
C17_Witness ==
  /\ listed.radius = 2
  /\ listed.board = MkBoard({<<CENTER, CENTER>>}, {<<CENTER + 1, CENTER + 2>>})
  /\ Len(listed.smart) = 36
  /\ [x |-> CENTER + 4, y |-> CENTER + 3] \in {listed.smart[n] : n \in 1 .. Len(listed.smart)}
  /\ [x |-> CENTER + 3, y |-> CENTER + 4] \in
       {listed.candidates[n] : n \in 1 .. Len(listed.candidates)}

\* The listing of the board without stones.
C17_WitnessEmpty ==
  /\ listed.radius >= 0
  /\ StoneCells(listed.board) = {}
  /\ Len(listed.smart) = 1

\* C20: starThresholds are maximum move counts: completeLevel(true, n) awards
\* k stars only if n is at most the k-star threshold, and awards the largest
\* such k.
C20_StarsWithinThresholds ==
  (completion.called /\ completion.won) =>
    /\ completion.stars \in 1 .. 3 =>
         completion.moveCount
           <= levels[completion.level + 1].starThresholds[completion.stars]
    /\ \A k \in 1 .. 3 :
         completion.moveCount <= levels[completion.level + 1].starThresholds[k]
           => completion.stars >= k

\* C18: after Double is activated with a count above 0, the counter is one
\* less, the human's next two stones are both black, no stone of the AI is
\* placed between them, the AI is not set to reply after the first of them
\* and is set to reply after the second (unless the stone ends the game).
C18_DoubleTwoBlackStones ==
  doubled.on =>
    /\ doubled.after = doubled.before - 1
    /\ \A k \in 1 .. Len(doubled.human) : doubled.human[k] = HUMAN
    /\ doubled.ai = 0
    /\ (clicked.kind = "place" /\ ~doubled.over /\ Len(doubled.human) = 1)
         => (~aiThinking /\ currentPlayer = HUMAN)
    /\ (clicked.kind = "place" /\ ~doubled.over /\ Len(doubled.human) = 2)
         => aiThinking

\* C19: a bomb used on a target removes every stone, black or white, in the
\* 3x3 area around the target, changes no other cell, and takes exactly one
\* bomb.
C19_BombClearsArea ==
  [][ (clicked'.kind = "bomb" /\ clicked'.events # clicked.events)
        => /\ powerStones'.bomb = powerStones.bomb - 1
           /\ \A y \in Idx, x \in Idx :
                gameBoard'[y][x] =
                  IF /\ Chebyshev(<< x, y >>, << clicked'.x, clicked'.y >>) <= 1
                     /\ gameBoard[y][x] \in {HUMAN, AI_PLAYER}
                  THEN 0 ELSE gameBoard[y][x] ]_vars

\* C21: on a board where the pattern total of a player A (the sum of the
\* table's weights of A's runs) is greater than that of the other player B,
\* evaluateBoard(board, A) is greater than evaluateBoard(board, B).
C21_PatternsDecideSign ==
  (evaluated.fn = "evaluateBoard"
     /\ evaluated.out.myPatterns > evaluated.out.theirPatterns)
    => evaluated.out.mine > evaluated.out.theirs

\* C21 (amended): on a board where the pattern total of a player A is
\* greater than that of the other player B, and the centre bonus of A's
\* stones is not smaller than that of B's stones,
\* evaluateBoard(board, A) is greater than evaluateBoard(board, B).
C21_PatternsAndBonusDecideSign ==
  (evaluated.fn = "evaluateBoard"
     /\ evaluated.out.myPatterns > evaluated.out.theirPatterns
     /\ evaluated.out.myBonus >= evaluated.out.theirBonus)
    => evaluated.out.mine > evaluated.out.theirs

\* evaluateBoard was applied for both players of a board on which both have
\* patterns and a centre bonus, the first more of each.
C21_Witness ==
  /\ evaluated.fn = "evaluateBoard"
  /\ evaluated.out.theirPatterns > 0
  /\ evaluated.out.theirBonus > 0
  /\ evaluated.out.myPatterns > evaluated.out.theirPatterns
  /\ evaluated.out.myBonus > evaluated.out.theirBonus
  /\ evaluated.out.mine > 0

\* The policy a finished call of getMove ran: the strategy that returned,
\* or the one whose time limit the engine got.
UsedPolicy ==
  IF result.via = "easy" THEN "easy"
  ELSE IF result.via = "book" THEN "master"
  ELSE IF engine.timeLimit = MasterTimeLimit THEN "master"
  ELSE IF engine.timeLimit = HardTimeLimit THEN "hard"
  ELSE "medium"

\* C22: setDifficulty(level) changes the stored difficulty only when level
\* is one of 'easy', 'medium', 'hard', 'master', and then to level; for any
\* other value it raises no error and leaves the stored difficulty, and so
\* the policy the next getMove runs, as they were.
C22_SetDifficultyFrame ==
  asked.count > 0 =>
    /\ result.kind # "throw"
    /\ difficulty = (IF asked.level \in {"easy", "medium", "hard", "master"}
                     THEN asked.level ELSE asked.before)
    /\ (pc = "done" /\ asked.level \notin {"easy", "medium", "hard", "master"})
         => UsedPolicy = asked.before
    /\ (pc = "done" /\ asked.level \in {"easy", "medium", "hard", "master"})
         => UsedPolicy = asked.level

\* setDifficulty was called with a value that is no level while 'hard' was
\* stored, and the getMove after it returned from its search.
C22_Witness ==
  /\ asked.count > 0
  /\ asked.level = "expert"
  /\ asked.before = "hard"
  /\ pc = "done"
  /\ result.via = "search"
  /\ engine.timeLimit = HardTimeLimit

\* C23: opponent is total and involutive on the player identities: for
\* every player p, opponent(p) is a player different from p and
\* opponent(opponent(p)) = p.
C23_OpponentInvolutive ==
  evaluated.fn = "opponent" =>
    /\ evaluated.out.of \in {BLACK, WHITE}
    /\ evaluated.out.of # player
    /\ evaluated.out.back = player

\* opponent was applied to WHITE and gave BLACK.
C23_Witness ==
  /\ evaluated.fn = "opponent"
  /\ player = WHITE
  /\ evaluated.out.of = BLACK

\* The empty cells of b on which a stone of `who` makes checkWin true.
WinsAtOnce(b, who) ==
  {c \in Idx \X Idx :
     b[c[1]][c[2]] = EMPTY /\ checkWin(Place(b, c[1], c[2], who), who)}

\* C24: in findBestMove and findBestMoveIterative the scan for a winning
\* move is done before the scan for a blocking move: when the mover has a
\* cell that wins at once (and the opponent threatens to win next turn as
\* well) that cell is returned, and a blocking cell is returned by the
\* shortcut only when no cell wins for the mover.
C24_WinScanFirst ==
  (pc = "done" /\ result.via \in {"single", "win", "block", "search"}) =>
    /\ WinsAtOnce(board0, player) # {}
         => /\ << result.x, result.y >> \in WinsAtOnce(board0, player)
            /\ result.via \in {"single", "win"}
    /\ result.via = "block"
         => /\ WinsAtOnce(board0, player) = {}
            /\ << result.x, result.y >> \in WinsAtOnce(board0, opponent(player))

\* A search returned the mover's winning cell on a board where the
\* opponent had a winning cell too, once from findBestMove and once from
\* findBestMoveIterative.
C24_Witness ==
  /\ pc = "done"
  /\ result.via = "win"
  /\ difficulty = "hard"
  /\ WinsAtOnce(board0, opponent(player)) # {}
  /\ << result.x, result.y >> \notin WinsAtOnce(board0, opponent(player))

C24_WitnessIterative ==
  /\ pc = "done"
  /\ result.via = "win"
  /\ difficulty = "master"
  /\ WinsAtOnce(board0, opponent(player)) # {}

C24_WitnessBlock ==
  /\ pc = "done"
  /\ result.via = "block"
  /\ WinsAtOnce(board0, player) = {}

\* C25: pruning does not change the result.  With no time-out, a call of
\* alphabeta with the window (-INF, +INF), as the root loops make it,
\* returns the value plain minimax returns for the same node, and
\* findBestMove returns the root move that the same loop over the minimax
\* values chooses: the first one of the largest value.
C25_PruningKeepsValue ==
  /\ (pc = "search" /\ Len(stack) = 1 /\ stack[1].st = "ret"
        /\ ~engine.timedOut)
       => stack[1].value = minimax(board, root.depth - 1, player,
                                   opponent(player), FALSE,
                                   engine.useAdvancedEval)
  /\ (pc = "done" /\ result.via = "search" /\ ~root.iter /\ ~engine.timedOut)
       => \A k \in 1 .. Min(RootWidth, Len(root.moves)) :
            IF k = root.best
            THEN minimax(MakeMove(board, root.moves[k], player), root.depth - 1,
                         player, opponent(player), FALSE, engine.useAdvancedEval)
                   = root.bestScore
            ELSE IF k < root.best
            THEN minimax(MakeMove(board, root.moves[k], player), root.depth - 1,
                         player, opponent(player), FALSE, engine.useAdvancedEval)
                   < root.bestScore
            ELSE minimax(MakeMove(board, root.moves[k], player), root.depth - 1,
                         player, opponent(player), FALSE, engine.useAdvancedEval)
                   <= root.bestScore

\* The first root call of alphabeta at Hard has returned without a
\* time-out after fewer calls than minimax makes for that node: positions
\* were pruned.
C25_Witness ==
  /\ pc = "search"
  /\ difficulty = "hard"
  /\ root.idx = 1
  /\ Len(stack) = 1
  /\ stack[1].st = "ret"
  /\ ~engine.timedOut
  /\ visited < TreeSize(board, root.depth - 1, player, opponent(player))

\* C26: a time-out is a cooperative abort.  Once the timed-out flag is set
\* during a search, no stone is placed and alphabeta is not called again
\* (no child or sibling is expanded); every step returns from the
\* innermost active frame, whose caller returns in turn, with the value it
\* had before the call; and the best score and best move of the root loop
\* stay as they were.
C26_CooperativeAbort ==
  [][(pc = "search" /\ engine.timedOut) =>
       /\ engine' = engine
       /\ visited' = visited
       /\ countStones(board') <= countStones(board)
       /\ IF stack = << >> THEN stack' = << >>
          ELSE /\ Len(stack') = Len(stack) - 1
               /\ stack[Len(stack)].st = "ret"
               /\ stack' # << >>
                    => /\ stack'[Len(stack')].st = "ret"
                       /\ stack'[Len(stack')].value = stack[Len(stack')].value
       /\ root'.best = root.best
       /\ root'.bestScore = root.bestScore
       /\ Len(stack) = 1 => root'.st = "end"
       /\ stack = << >> => pc' = "done"]_vars

\* The flag was set in a call of alphabeta three levels or more below the
\* root loop of findBestMove; the frame that made the call has moves left.
C26_Witness ==
  /\ pc = "search"
  /\ ~root.iter
  /\ engine.timedOut
  /\ Len(stack) >= 3
  /\ stack[Len(stack)].st = "ret"
  /\ stack[Len(stack) - 1].st = "loop"
  /\ stack[Len(stack) - 1].idx < Len(stack[Len(stack) - 1].moves)

\* C27: in a search with a positive time limit, at most 999 calls of
\* alphabeta are made after the time limit has run out and before the
\* timed-out flag is set or the search ends, in findBestMove and, with the
\* node counter set to zero at every depth, in findBestMoveIterative.
C27_OvershootBelowInterval ==
  (engine.timeLimit > 0 /\ visited >= deadlineAt) =>
    IF engine.timedOut THEN visited - deadlineAt <= 999
    ELSE visited - deadlineAt + 1 <= 999

\* findBestMove: the limit ran out before the first call of alphabeta, and
\* the call that set the flag is the 1000th.
C27_Witness ==
  /\ ~root.iter
  /\ deadlineAt = 1
  /\ engine.timedOut
  /\ visited = 1000

\* findBestMoveIterative: the limit ran out during a depth after the first,
\* and the search ended.
C27_WitnessIterative ==
  /\ root.iter
  /\ pc = "done"
  /\ root.depth > 1
  /\ visited >= deadlineAt
  /\ visited > engine.nodesSearched
  /\ deadlineAt > visited - engine.nodesSearched

\* C28: a call of alphabeta that the time check does not abort, on a board
\* where the root player has five in a row, returns WIN_SCORE + depth
\* (depth: the remaining depth it was called with); where only the
\* opponent has five it returns -(WIN_SCORE + depth).  This holds at depth
\* 0 and on a full board too, where otherwise the static evaluation is
\* returned.  So a win found with more remaining depth has the larger
\* value, and every value of a win is larger than every static evaluation
\* returned.
C28_TerminalValues ==
  [][visited' = visited + 1 /\ ~engine'.timedOut =>
       /\ checkWin(board', player)
            => stack'[Len(stack')] = RetFrame(ValueScale * (WIN_SCORE + (Caller.depth - 1)))
       /\ (~checkWin(board', player) /\ checkWin(board', opponent(player)))
            => stack'[Len(stack')] = RetFrame(-(ValueScale * (WIN_SCORE + (Caller.depth - 1))))
       /\ (~checkWin(board', player) /\ ~checkWin(board', opponent(player))
             /\ stack'[Len(stack')].st = "ret")
            => /\ Caller.depth - 1 = 0 \/ isBoardFull(board')
               /\ stack'[Len(stack')].value < ValueScale * WIN_SCORE
               /\ stack'[Len(stack')].value > -(ValueScale * WIN_SCORE)
       /\ \A d \in 1 .. MasterMaxDepth :
            ValueScale * (WIN_SCORE + d) > ValueScale * (WIN_SCORE + (d - 1))]_vars

\* A call of alphabeta with remaining depth 0 has found five of the root
\* player and returned WIN_SCORE, and one with remaining depth 1 has found
\* five of the opponent and returned -(WIN_SCORE + 1).
C28_Witness ==
  /\ pc = "search"
  /\ stack # << >>
  /\ stack[Len(stack)] = RetFrame(ValueScale * WIN_SCORE)
  /\ checkWin(board, player)

C28_WitnessLoss ==
  /\ pc = "search"
  /\ stack # << >>
  /\ stack[Len(stack)] = RetFrame(-(ValueScale * (WIN_SCORE + 1)))
  /\ checkWin(board, opponent(player))

C28_WitnessStatic ==
  /\ pc = "search"
  /\ stack # << >>
  /\ stack[Len(stack)].st = "ret"
  /\ isBoardFull(board)
  /\ ~checkWin(board, player)
  /\ ~checkWin(board, opponent(player))

\* The search score of the root candidate k: the value of the position
\* after it, searched to the depth the root loop searches it.
SearchScore(k) ==
  minimax(MakeMove(board0, root.moves[k], player), root.depth - 1, player,
          opponent(player), FALSE, engine.useAdvancedEval)

\* C29: when no shortcut fires and no time-out occurs, findBestMove returns
\* one of the first 20 candidates in descending order of quick score: one
\* whose search score is the largest among these 20, and of those with the
\* largest score the one that comes first in that order.
C29_FirstLargestOfTwenty ==
  (pc = "done" /\ result.via = "search" /\ ~root.iter /\ ~engine.timedOut) =>
    /\ root.moves = StripScores(getOrderedMoves(board0, player, 2))
    /\ \A n \in 1 .. Len(root.moves) - 1 :
         scoreMoveQuick(board0, root.moves[n].x, root.moves[n].y, player)
           >= scoreMoveQuick(board0, root.moves[n + 1].x, root.moves[n + 1].y, player)
    /\ \E k \in 1 .. 20 :
         /\ k <= Len(root.moves)
         /\ result = Returned(root.moves[k], "search")
         /\ \A n \in 1 .. 20 :
              n <= Len(root.moves) =>
                /\ SearchScore(n) <= SearchScore(k)
                /\ n < k => SearchScore(n) < SearchScore(k)

\* findBestMove returned from its search of a position with more than 20
\* candidates; the move it returned is not the first of the order, and a
\* later one of the 20 has the same search score.
C29_Witness ==
  /\ pc = "done"
  /\ result.via = "search"
  /\ ~root.iter
  /\ ~engine.timedOut
  /\ Len(root.moves) > 20
  /\ root.best > 1
  /\ \E n \in root.best + 1 .. 20 : SearchScore(n) = root.bestScore

C31_ProgressMonotone ==
  [][/\ \A i \in 1 .. Len(levels) : campaign'.stars[i] >= campaign.stars[i]
     /\ campaign'.unlockedLevel >= campaign.unlockedLevel
     /\ campaign'.unlockedLevel <= Len(levels) - 1
     /\ campaign'.unlockedLevel <= campaign.unlockedLevel + 1
     /\ campaign'.unlockedLevel > campaign.unlockedLevel
          => /\ completion'.completions = completion.completions + 1
             /\ completion'.won
             /\ completion'.level = campaign'.unlockedLevel - 1
     /\ campaign'.stars # campaign.stars
          => /\ completion'.completions = completion.completions + 1
             /\ completion'.won
     /\ (completion'.completions = completion.completions + 1 /\ ~completion'.won)
          => /\ campaign'.stars = campaign.stars
             /\ campaign'.unlockedLevel = campaign.unlockedLevel]_vars

\* A level that had three stars was won again with one star, and it still
\* has three; a later level is unlocked.
C31_Witness ==
  /\ completion.called
  /\ completion.won
  /\ completion.stars = 1
  /\ campaign.stars[completion.level + 1] = 3
  /\ campaign.unlockedLevel > completion.level + 1

\* C32: while quiz mode is on, nextMove does not advance the replay: a call
\* of nextMove made in quiz mode, from the page or from the interval of
\* auto-play, leaves currentStep as it was, so currentStep grows in quiz mode
\* only by checkGuess.
C32_QuizNextMoveStays ==
  [][(training.quizMode /\ replay'.op \in {"nextMove", "tick"}
        /\ (replay'.op = "nextMove" => replay'.calls = replay.calls + 1))
       => training'.currentStep = training.currentStep]_vars

\* C33: every stone that the callback of triggerAITurn places on the engine
\* board is a stone of AI_PLAYER, whatever was clicked between the click
\* that scheduled the callback and its run: a board click, New Game, Menu,
\* the start of a free-play game or of a campaign level.
C33_TimerPlacesWhite ==
  [][(clicked'.kind = "ai" /\ clicked'.events = clicked.events + 1)
       => \A y \in Idx, x \in Idx :
            gameBoard'[y][x] # gameBoard[y][x] => gameBoard'[y][x] = AI_PLAYER]_vars

\* C34: the game never gets stuck: whenever the game is active and not over,
\* either a reply of the AI is pending (a callback of triggerAITurn is
\* scheduled) or the human is able to place a stone (aiThinking is false and
\* it is black's turn, or Double is pending).
C34_NeverStuck ==
  (gameActive /\ ~gameOver)
    => \/ timers > 0
       \/ ~aiThinking /\ (currentPlayer = HUMAN \/ doublePending)

\* C35: power stones are campaign-only: whenever the mode is free play,
\* activePower is null and doublePending is false, whatever was done in a
\* campaign level before.
C35_FreePlayNoPower ==
  mode = "free" => (activePower = "null" /\ ~doublePending)

\* C36: under any sequence of placeStone, undoMove and reset the board and
\* the move history stay consistent: a cell holds player p's stone iff the
\* history has exactly one move at that cell made by p; the players of the
\* history alternate, starting with black; gameOver holds iff winner is not
\* 0; and while the game is not over currentPlayer is the opponent of the
\* last mover (black on an empty history).
C36_BoardMatchesHistory ==
  /\ \A y \in Idx, x \in Idx, p \in {1, 2} :
       (gameBoard[y][x] = p)
         <=> Cardinality({k \in 1 .. Len(moveHistory) :
                            /\ moveHistory[k].x = x
                            /\ moveHistory[k].y = y
                            /\ moveHistory[k].player = p}) = 1
  /\ \A k \in 1 .. Len(moveHistory) :
       moveHistory[k].player = (IF k % 2 = 1 THEN 1 ELSE 2)
  /\ gameOver <=> winner # 0
  /\ ~gameOver =>
       currentPlayer = (IF Len(moveHistory) = 0 THEN 1
                        ELSE IF moveHistory[Len(moveHistory)].player = 1 THEN 2
                        ELSE 1)

\* Black's winning eleventh stone was undone: ten stones are left and it is
\* black's turn again.
C36_Witness ==
  /\ placed.op = "undoMove"
  /\ prior.undid = 1
  /\ ~gameOver
  /\ Len(moveHistory) = 10
  /\ currentPlayer = 1

\* C37: after any sequence of selectGame, nextMove, prevMove, goToStart,
\* goToEnd, toggleQuiz, checkGuess and ticks of auto-play, currentStep is at
\* least 0 and at most the number of moves of the selected game.
C37_StepWithinGame ==
  /\ training.currentStep >= 0
  /\ training.currentGame # 0 => training.currentStep <= Len(MovesOf(training))

\* Auto-play ran to the last move of the three-move game, and the tick
\* after it did not advance.
C37_Witness ==
  /\ training.currentGame = 1
  /\ training.currentStep = Len(games[1].moves)
  /\ replay.op = "tick"
  /\ ~replay.ok

\* nextMove cannot advance: no game is selected, the last move is shown, or
\* a quiz question is unanswered.
CannotAdvance ==
  \/ training.currentGame = 0
  \/ training.currentStep >= Len(MovesOf(training))
  \/ training.quizMode /\ ~training.quizAnswered

\* C38: auto-play terminates.  At most one interval is live at any time, and
\* it is the one autoTimer names; a tick on which nextMove can advance shows
\* one more move and leaves the interval running, and a tick on which
\* nextMove cannot advance clears the interval and autoTimer; and auto-play
\* that is running stops after finitely many ticks.
C38_AutoPlayStops ==
  /\ [](/\ Cardinality(intervals) <= 1
        /\ intervals = (IF training.autoTimer = 0 THEN {} ELSE {training.autoTimer}))
  /\ [][(replay'.op = "tick" /\ replay'.calls = replay.calls /\ training' # training)
          => IF CannotAdvance
             THEN /\ training'.autoTimer = 0
                  /\ intervals' = {}
                  /\ training'.currentStep = training.currentStep
             ELSE /\ training'.autoTimer = training.autoTimer
                  /\ intervals' = intervals
                  /\ training'.currentStep = training.currentStep + 1]_vars
  /\ (training.autoTimer # 0) ~> (training.autoTimer = 0)

\* Auto-play was started a second time and stopped itself again, on a tick
\* that could not advance.
C38_Witness ==
  /\ replay.started = 2
  /\ replay.op = "tick"
  /\ ~replay.ok
  /\ training.autoTimer = 0
  /\ intervals = {}

\* C39: on every axis, ten times the blocking part of scoreMoveQuick is
\* nine times the value that the mover's own term takes from the pattern
\* table for the opponent's run length and open-end count through the cell.
C39_BlockIsOwnLookup ==
  evaluated.fn = "scoreMoveQuick" =>
    \A d \in 1 .. 4 :
      evaluated.out.axes[d].block
        = 9 * OwnTerm(evaluated.out.axes[d].run.total, evaluated.out.axes[d].run.open)

====
